---- MODULE Spec2Model ----
(***************************************************************************)
(* A model of the Lisp interpreter of lisp.c.  The file holds two variants *)
(* of the interpreter: the tracing-collector variant (lisp.c:1833-4137,    *)
(* contexts with a hashed variable table, syntax objects, native cfuncs)   *)
(* and the reference-counted variant (lisp.c:1-1831, contexts with a       *)
(* variable list, every builtin a function that receives its argument list *)
(* unevaluated).  Spec drives the tracing variant, SpecRc the              *)
(* reference-counted one.  The evaluator is a big-step function over a     *)
(* record s that holds the heap (contexts, vectors), the runtime's         *)
(* exception list, the output, and a ghost log of environment operations.  *)
(* SpecIntern drives the symbol interner of the tracing variant, with      *)
(* names as sequences of character codes.                                  *)
(* SpecTokens and SpecRead drive the reader on a stream of character       *)
(* codes, SpecScript the two drivers of main.c on a script, and            *)
(* SpecObjects the reference counts of the reference-counted variant.      *)
(***************************************************************************)
EXTENDS Integers, Sequences, FiniteSets, TLC

VARIABLES ctxs, vecs, exception_list, out, log, last, crashed, steps, interned, reader,
          object_list

vars ==
  <<ctxs, vecs, exception_list, out, log, last, crashed, steps, interned, reader,
    object_list>>

(***************************************************************************)
(* Bounds                                                                  *)
(***************************************************************************)
MaxSteps == 3
MaxDepth == 12
\* the calls of the reader made on one stream
MaxTokens == 6

(***************************************************************************)
(* Values (lisp.h).  A value is a tuple whose first element is its tag or  *)
(* the class of the object it points to.                                   *)
(***************************************************************************)
LISP_NIL == <<"nil">>
LISP_EXCEPTION == <<"exception">>
LISP_INT32(val) == <<"int", val>>
LISP_TRUE == <<"bool", 1>>
LISP_FALSE == <<"bool", 0>>

LISP_CLASS_FUNCTION == "function"
LISP_CLASS_SYNTAX == "syntax"
LISP_CLASS_STRING == "string"
LISP_CLASS_SYMBOL == "symbol"
LISP_CLASS_PAIR == "pair"
LISP_CLASS_VECTOR == "vector"

LISP_IS_EXCEPTION(val) == val[1] = "exception"
LISP_IS_NIL(val) == val[1] = "nil"
LISP_IS_INT(val) == val[1] = "int"
LISP_IS_BOOL(val) == val[1] = "bool"
\* tag 0: the value is a pointer (LISP_NIL is the NULL pointer)
LISP_IS_PTR(val) == val[1] \notin {"exception", "int", "bool"}

lisp_is_class(val, class_id) == LISP_IS_PTR(val) /\ ~LISP_IS_NIL(val) /\ val[1] = class_id
LISP_IS_LIST(val) == LISP_IS_NIL(val) \/ lisp_is_class(val, LISP_CLASS_PAIR)
LISP_IS_SYMBOL(val) == lisp_is_class(val, LISP_CLASS_SYMBOL)

\* heap objects; symbols are interned, so a symbol is its upper-case name
Symbol(name) == <<LISP_CLASS_SYMBOL, name>>
String(str) == <<LISP_CLASS_STRING, str>>
Pair(car, cdr) == <<LISP_CLASS_PAIR, car, cdr>>
Vector(addr) == <<LISP_CLASS_VECTOR, addr>>
Syntax(func, magic) == <<LISP_CLASS_SYNTAX, func, magic>>
Function(invoker, name, params, body, ctx, cfunc, arg_max) ==
  <<LISP_CLASS_FUNCTION, invoker, name, params, body, ctx, cfunc, arg_max>>

LISP_SYMBOL_STR(sym) == sym[2]
fn_invoker(fn) == fn[2]
fn_name(fn) == fn[3]
fn_params(fn) == fn[4]
fn_body(fn) == fn[5]
fn_ctx(fn) == fn[6]
fn_cfunc(fn) == fn[7]
fn_arg_max(fn) == fn[8]

LISP_MAGIC_LET == 0
LISP_MAGIC_LETREC == 1
LISP_MAGIC_LETSTAR == 2

\* the proper list the reader builds from a sequence of forms
RECURSIVE List(_)
List(xs) == IF Len(xs) = 0 THEN LISP_NIL ELSE Pair(Head(xs), List(Tail(xs)))

(***************************************************************************)
(* Results: a function of the interpreter returns the heap it leaves and   *)
(* its C return value.                                                     *)
(***************************************************************************)
R(s, v) == [s |-> s, v |-> v]

\* A C local variable that holds the result of a call is written
\*   [r \in Any |-> rest][call]
\* which reads "r = call; rest": the call is made once and rest sees its
\* result, the heap it left included.  Where several locals are nested, the
\* calls are made from the bottom up.

\* the process dies (segmentation fault, stack overflow)
Crash(s) == [s EXCEPT !.crash = TRUE]

\* the log is a ghost: the calls of the last evaluation, in their order
Logged(s, event) == [s EXCEPT !.log = Append(@, event)]

(***************************************************************************)
(* Exceptions                                                              *)
(***************************************************************************)
\* lisp_throw that adds the payload at the far end of the exception list
lisp_throw_appending(s, ctx, error) ==
  R(Logged([s EXCEPT !.out = Append(@, <<"throwing", error>>),
                     !.exception_list = @ \o <<error>>],
           [ev |-> "throw", error |-> error, before |-> s.exception_list,
            after |-> s.exception_list \o <<error>>]),
    LISP_EXCEPTION)

\* the exception list is a list of cons cells, its car the latest payload
lisp_throw(s, ctx, error) ==
  R(Logged([s EXCEPT !.out = Append(@, <<"throwing", error>>),
                     !.exception_list = <<error>> \o @],
           [ev |-> "throw", error |-> error, before |-> s.exception_list,
            after |-> <<error>> \o s.exception_list]),
    LISP_EXCEPTION)

lisp_throw_internal_error(s, ctx, msg) == lisp_throw(s, ctx, String(msg))

(***************************************************************************)
(* Objects and pairs                                                       *)
(***************************************************************************)
\* v is TRUE iff a non-NULL object pointer is returned
lisp_get_object(s, ctx, val, tag) ==
  IF LISP_IS_EXCEPTION(val) THEN R(s, FALSE)
  ELSE IF LISP_IS_NIL(val)
    THEN R(lisp_throw_internal_error(s, ctx, "Object pointer not set").s, FALSE)
  ELSE IF ~LISP_IS_PTR(val)
    \* val.ptr of a tagged immediate is not the address of an object
    THEN R(Crash(s), FALSE)
  ELSE IF val[1] # tag
    THEN R(lisp_throw_internal_error(s, ctx, "Object class mismatch").s, FALSE)
  ELSE R(s, TRUE)

lisp_car(s, ctx, val) ==
  [cons \in Any |->
      IF ~cons.v THEN R(cons.s, LISP_EXCEPTION) ELSE R(cons.s, val[2])
  ][lisp_get_object(s, ctx, val, LISP_CLASS_PAIR)
  ]

lisp_cdr(s, ctx, val) ==
  [cons \in Any |->
      IF ~cons.v THEN R(cons.s, LISP_EXCEPTION) ELSE R(cons.s, val[3])
  ][lisp_get_object(s, ctx, val, LISP_CLASS_PAIR)
  ]

\* lisp_car and lisp_cdr of the exception list: the car of the empty list
\* raises, and the cdr that follows removes the payload just raised
lisp_get_exception(s, ctx) ==
  IF Len(s.exception_list) = 0
    THEN
         [car \in Any |->
             R([car.s EXCEPT !.exception_list = Tail(@)], LISP_EXCEPTION)
         ][lisp_throw_internal_error(s, ctx, "Object pointer not set")
         ]
  ELSE R([s EXCEPT !.exception_list = Tail(@)], Head(s.exception_list))

lisp_new_cons(s, ctx, car, cdr) ==
  IF LISP_IS_EXCEPTION(car) \/ LISP_IS_EXCEPTION(cdr) THEN R(s, LISP_EXCEPTION)
  ELSE R(s, Pair(car, cdr))

\* res is 0 or -1; heads holds the elements extracted so far
RECURSIVE lisp_list_extract_loop(_, _, _, _, _)
lisp_list_extract_loop(s, ctx, tail, n, heads) ==
  IF n = 0 THEN [s |-> s, res |-> 0, heads |-> heads, tail |-> tail]
  ELSE
       [h \in Any |->
           IF LISP_IS_EXCEPTION(h.v)
             THEN [s |-> h.s, res |-> -1, heads |-> heads, tail |-> tail]
           ELSE
                [t \in Any |->
                    lisp_list_extract_loop(t.s, ctx, t.v, n - 1, Append(heads, h.v))
                ][lisp_cdr(h.s, ctx, tail)
                ]
       ][lisp_car(s, ctx, tail)
       ]

lisp_list_extract(s, ctx, list, n) ==
  IF LISP_IS_EXCEPTION(list) THEN [s |-> s, res |-> -1, heads |-> <<>>, tail |-> list]
  ELSE lisp_list_extract_loop(s, ctx, list, n, <<>>)

\* v is the length; the loop never ends on a list whose tail cannot be
\* extracted (the tail is left as it is and is never LISP_NIL)
RECURSIVE lisp_list_length(_, _, _)
lisp_list_length(s, ctx, list) ==
  IF LISP_IS_NIL(list) THEN R(s, 0)
  ELSE IF LISP_IS_EXCEPTION(list) THEN R(Crash(s), 0)
  ELSE
       [e \in Any |->
           IF e.s.crash \/ e.res # 0 THEN R(Crash(e.s), 0)
           ELSE
                [rest \in Any |->
                    R(rest.s, rest.v + 1)
                ][lisp_list_length(e.s, ctx, e.tail)
                ]
       ][lisp_list_extract(s, ctx, list, 1)
       ]

(***************************************************************************)
(* Contexts and variables                                                  *)
(***************************************************************************)
lisp_context_new_with_parent(s, parent, name) ==
  R([s EXCEPT !.ctxs = Append(@, [name |-> name, parent |-> parent, vars |-> <<>>])],
    Len(s.ctxs) + 1)

\* hashtable.h: the node is added at the head of its bucket
hash_add(table, node) == <<node>> \o table

\* hash_for_each_possible: the first cell of the table that holds name, 0 if
\* there is none
FindCell(table, name) ==
  [cells \in Any |->
      IF cells = {} THEN 0 ELSE CHOOSE i \in cells : \A j \in cells : i <= j
  ][{i \in 1..Len(table) : table[i][1] = name}
  ]

\* the first frame of the chain of ctx with a cell for name, 0 if there is none
RECURSIVE FindFrame(_, _, _)
FindFrame(cs, ctx, name) ==
  IF ctx = 0 THEN 0
  ELSE IF FindCell(cs[ctx].vars, name) # 0 THEN ctx
  ELSE FindFrame(cs, cs[ctx].parent, name)

\* lisp_context_get_var with a search that prefers the bindings of the
\* ancestors to the one of the frame
lisp_context_get_var_outer_first(s, ctx, name) ==
  IF LISP_IS_EXCEPTION(name) THEN R(s, LISP_EXCEPTION)
  ELSE IF ~LISP_IS_SYMBOL(name) THEN lisp_throw_internal_error(s, ctx, "type error")
  ELSE
       [outer \in Any |->
       [f \in Any |->
       [r \in Any |->
           R(Logged(r.s, [ev |-> "lookup", ctx |-> ctx, name |-> name, result |-> r.v,
                          before |-> s.ctxs, after |-> r.s.ctxs,
                          exc_before |-> s.exception_list,
                          exc_after |-> r.s.exception_list]), r.v)
       ][IF f # 0
                  THEN R(s, s.ctxs[f].vars[FindCell(s.ctxs[f].vars, name)][2])
                ELSE lisp_throw_internal_error(s, ctx,
                       "no such variable: " \o LISP_SYMBOL_STR(name))
       ]
       ][IF outer # 0 THEN outer ELSE FindFrame(s.ctxs, ctx, name)
       ]
       ][FindFrame(s.ctxs, s.ctxs[ctx].parent, name)
       ]

lisp_context_get_var(s, ctx, name) ==
  IF LISP_IS_EXCEPTION(name) THEN R(s, LISP_EXCEPTION)
  ELSE IF ~LISP_IS_SYMBOL(name) THEN lisp_throw_internal_error(s, ctx, "type error")
  ELSE
       [f \in Any |->
       [r \in Any |->
           R(Logged(r.s, [ev |-> "lookup", ctx |-> ctx, name |-> name, result |-> r.v,
                          before |-> s.ctxs, after |-> r.s.ctxs,
                          exc_before |-> s.exception_list,
                          exc_after |-> r.s.exception_list]), r.v)
       ][IF f # 0
                  THEN R(s, s.ctxs[f].vars[FindCell(s.ctxs[f].vars, name)][2])
                ELSE lisp_throw_internal_error(s, ctx,
                       "no such variable: " \o LISP_SYMBOL_STR(name))
       ]
       ][FindFrame(s.ctxs, ctx, name)
       ]

\* lisp_context_set_var that assigns in the frame alone and adds the variable
\* to it when an ancestor holds the binding
lisp_context_set_var_shadowing(s, ctx, name, value) ==
  IF LISP_IS_EXCEPTION(name) THEN R(s, LISP_EXCEPTION)
  ELSE IF ~LISP_IS_SYMBOL(name) THEN lisp_throw_internal_error(s, ctx, "type error")
  ELSE
       [f \in Any |->
       [r \in Any |->
           R(Logged(r.s, [ev |-> "set", ctx |-> ctx, name |-> name, value |-> value,
                          result |-> r.v, before |-> s.ctxs, after |-> r.s.ctxs,
                          exc_before |-> s.exception_list,
                          exc_after |-> r.s.exception_list]), r.v)
       ][IF f = ctx
                  THEN R([s EXCEPT !.ctxs[f].vars[FindCell(s.ctxs[f].vars, name)][2] = value],
                         LISP_NIL)
                ELSE IF f # 0
                  THEN R([s EXCEPT !.ctxs[ctx].vars = hash_add(@, <<name, value>>)], LISP_NIL)
                ELSE lisp_throw_internal_error(s, ctx, "no such variable")
       ]
       ][FindFrame(s.ctxs, ctx, name)
       ]

\* lisp_context_set_var that defines the variable no frame binds
lisp_context_set_var_defining(s, ctx, name, value) ==
  IF LISP_IS_EXCEPTION(name) THEN R(s, LISP_EXCEPTION)
  ELSE IF ~LISP_IS_SYMBOL(name) THEN lisp_throw_internal_error(s, ctx, "type error")
  ELSE
       [f \in Any |->
       [r \in Any |->
           R(Logged(r.s, [ev |-> "set", ctx |-> ctx, name |-> name, value |-> value,
                          result |-> r.v, before |-> s.ctxs, after |-> r.s.ctxs,
                          exc_before |-> s.exception_list,
                          exc_after |-> r.s.exception_list]), r.v)
       ][IF f # 0
                  THEN R([s EXCEPT !.ctxs[f].vars[FindCell(s.ctxs[f].vars, name)][2] = value],
                         LISP_NIL)
                ELSE R([s EXCEPT !.ctxs[ctx].vars = hash_add(@, <<name, value>>)], LISP_NIL)
       ]
       ][FindFrame(s.ctxs, ctx, name)
       ]

lisp_context_set_var(s, ctx, name, value) ==
  IF LISP_IS_EXCEPTION(name) THEN R(s, LISP_EXCEPTION)
  ELSE IF ~LISP_IS_SYMBOL(name) THEN lisp_throw_internal_error(s, ctx, "type error")
  ELSE
       [f \in Any |->
       [r \in Any |->
           R(Logged(r.s, [ev |-> "set", ctx |-> ctx, name |-> name, value |-> value,
                          result |-> r.v, before |-> s.ctxs, after |-> r.s.ctxs,
                          exc_before |-> s.exception_list,
                          exc_after |-> r.s.exception_list]), r.v)
       ][IF f # 0
                  THEN R([s EXCEPT !.ctxs[f].vars[FindCell(s.ctxs[f].vars, name)][2] = value],
                         LISP_NIL)
                ELSE lisp_throw_internal_error(s, ctx, "no such variable")
       ]
       ][FindFrame(s.ctxs, ctx, name)
       ]

\* lisp_context_define_var that keeps the binding the frame already has
lisp_context_define_var_keeping(s, ctx, name, value) ==
  [r \in Any |->
      R(Logged(r.s, [ev |-> "define", ctx |-> ctx, name |-> name, value |-> value,
                     result |-> r.v, before |-> s.ctxs, after |-> r.s.ctxs]), r.v)
  ][IF LISP_IS_EXCEPTION(name) \/ LISP_IS_EXCEPTION(value) THEN R(s, -1)
           ELSE IF ~LISP_IS_SYMBOL(name)
             THEN R(lisp_throw_internal_error(s, ctx, "name is not symbol").s, -1)
           ELSE IF FindCell(s.ctxs[ctx].vars, name) # 0 THEN R(s, 0)
           ELSE R([s EXCEPT !.ctxs[ctx].vars = hash_add(@, <<name, value>>)], 0)
  ]

\* lisp_context_define_var that adds the variable to the frame that already
\* binds the symbol, if an ancestor does
lisp_context_define_var_rebinding(s, ctx, name, value) ==
  [f \in Any |->
  [r \in Any |->
      R(Logged(r.s, [ev |-> "define", ctx |-> ctx, name |-> name, value |-> value,
                     result |-> r.v, before |-> s.ctxs, after |-> r.s.ctxs]), r.v)
  ][IF LISP_IS_EXCEPTION(name) \/ LISP_IS_EXCEPTION(value) THEN R(s, -1)
           ELSE IF ~LISP_IS_SYMBOL(name)
             THEN R(lisp_throw_internal_error(s, ctx, "name is not symbol").s, -1)
           ELSE R([s EXCEPT !.ctxs[f].vars = hash_add(@, <<name, value>>)], 0)
  ]
  ][IF LISP_IS_SYMBOL(name) /\ FindFrame(s.ctxs, ctx, name) # 0
             THEN FindFrame(s.ctxs, ctx, name)
           ELSE ctx
  ]

\* v is 0 or -1
lisp_context_define_var(s, ctx, name, value) ==
  [r \in Any |->
      R(Logged(r.s, [ev |-> "define", ctx |-> ctx, name |-> name, value |-> value,
                     result |-> r.v, before |-> s.ctxs, after |-> r.s.ctxs]), r.v)
  ][IF LISP_IS_EXCEPTION(name) \/ LISP_IS_EXCEPTION(value) THEN R(s, -1)
           ELSE IF ~LISP_IS_SYMBOL(name)
             THEN R(lisp_throw_internal_error(s, ctx, "name is not symbol").s, -1)
           ELSE R([s EXCEPT !.ctxs[ctx].vars = hash_add(@, <<name, value>>)], 0)
  ]

(***************************************************************************)
(* Functions and the evaluator (tracing variant)                           *)
(***************************************************************************)
lisp_new_function(s, ctx, name, params, body, invoker) ==
  \* LISP_SYMBOL_STR (name) reads the name field of whatever name points to
  IF ~LISP_IS_SYMBOL(name) THEN R(Crash(s), LISP_EXCEPTION)
  ELSE
       [c \in Any |->
           R(c.s, Function(invoker, name, params, body, c.v, "", 0))
       ][lisp_context_new_with_parent(s, ctx, LISP_SYMBOL_STR(name))
       ]

lisp_new_cfunc(s, ctx, name, cfunc, n) ==
  [func \in Any |->
      R(func.s, Function(fn_invoker(func.v), fn_name(func.v), fn_params(func.v),
                         fn_body(func.v), fn_ctx(func.v), cfunc, n))
  ][lisp_new_function(s, ctx, Symbol(name), Symbol(name), LISP_NIL,
                                "lisp_cfunc_invoker")
  ]

\* v is 0 or -1
lisp_to_int32(s, ctx, val) ==
  IF LISP_IS_EXCEPTION(val) THEN [s |-> s, v |-> -1, result |-> 0]
  ELSE IF LISP_IS_INT(val) THEN [s |-> s, v |-> 0, result |-> val[2]]
  ELSE [s |-> lisp_throw_internal_error(s, ctx,
                 IF LISP_IS_BOOL(val) THEN "Value error: 4" ELSE "Value error: 0").s,
        v |-> -1, result |-> 0]

\* v is 0 or -1
lisp_to_bool(s, ctx, val) ==
  IF LISP_IS_EXCEPTION(val) THEN [s |-> s, v |-> -1, res |-> 0]
  ELSE IF ~LISP_IS_BOOL(val)
    THEN [s |-> lisp_throw_internal_error(s, ctx, "Expected a boolean").s, v |-> -1, res |-> 0]
  ELSE [s |-> s, v |-> 0, res |-> val[2]]

\* the list of the cells car[1..], the cdr of the last cell being term
RECURSIVE ListWithTerm(_, _)
ListWithTerm(cars, term) ==
  IF Len(cars) = 0 THEN term ELSE Pair(Head(cars), ListWithTerm(Tail(cars), term))

Padded(arr, length) ==
  [i \in 1..length |-> IF i <= Len(arr) THEN arr[i] ELSE LISP_NIL]

RECURSIVE lisp_eval(_, _, _, _)
RECURSIVE lisp_eval_list(_, _, _, _, _)
RECURSIVE lisp_function_set_args(_, _, _, _, _, _, _, _)
RECURSIVE lisp_function_rest_args(_, _, _, _, _, _, _, _)
RECURSIVE lisp_eval_args_loop(_, _, _, _, _, _)
RECURSIVE lisp_let_loop(_, _, _, _, _, _)
RECURSIVE lisp_cond(_, _, _, _)

\* val is the value of the last form evaluated, LISP_NIL before the first
\* lisp_eval_list that goes through the whole list whatever a form returns
lisp_eval_list_to_the_end(s, ctx, list, val, d) ==
  IF LISP_IS_NIL(list) \/ s.crash THEN R(s, val)
  ELSE
       [exp \in Any |->
       [rest \in Any |->
       [v \in Any |->
           lisp_eval_list(v.s, ctx, rest.v, v.v, d)
       ][lisp_eval(rest.s, ctx, exp.v, d)
       ]
       ][lisp_cdr(exp.s, ctx, list)
       ]
       ][lisp_car(s, ctx, list)
       ]

lisp_eval_list(s, ctx, list, val, d) ==
  IF LISP_IS_NIL(list) \/ LISP_IS_EXCEPTION(val) \/ s.crash THEN R(s, val)
  ELSE
       [exp \in Any |->
       [rest \in Any |->
       [v \in Any |->
           lisp_eval_list(v.s, ctx, rest.v, v.v, d)
       ][lisp_eval(rest.s, ctx, exp.v, d)
       ]
       ][lisp_cdr(exp.s, ctx, list)
       ]
       ][lisp_car(s, ctx, list)
       ]

\* the loop that collects the remaining arguments for a rest parameter;
\* tail is "value" while tail = &value, "cdr" while it points to the cdr of
\* the last cell, "wild" once it was computed from the bits of Exception
lisp_function_rest_args(s, ctx, args, tail, cars, term, d, id) ==
  IF LISP_IS_NIL(args) \/ s.crash
    THEN [s |-> s, tail |-> tail, cars |-> cars, term |-> term]
  ELSE
       [expr \in Any |->
       [ev \in Any |->
       [s1 \in Any |->
       [cell \in Any |->
       [next \in Any |->
           IF tail = "wild"
             THEN [s |-> Crash(cell.s), tail |-> tail, cars |-> cars, term |-> term]
           ELSE IF LISP_IS_EXCEPTION(cell.v)
             THEN lisp_function_rest_args(next.s, ctx, next.v, "wild", cars,
                                          LISP_EXCEPTION, d, id)
           ELSE lisp_function_rest_args(next.s, ctx, next.v, "cdr",
                                        Append(cars, ev.v), term, d, id)
       ][lisp_cdr(cell.s, ctx, args)
       ]
       ][lisp_new_cons(s1, ctx, ev.v, LISP_NIL)
       ]
       ][Logged(ev.s, [ev |-> "evalarg", id |-> id, expr |-> expr.v,
                                raised |-> LISP_IS_EXCEPTION(ev.v)])
       ]
       ][lisp_eval(expr.s, ctx, expr.v, d)
       ]
       ][lisp_car(s, ctx, args)
       ]

\* value is the local variable value: <<"uninit">> until it is assigned
lisp_function_set_args(s, ctx, new_ctx, params, args, value, d, id) ==
  IF LISP_IS_NIL(params) \/ s.crash THEN R(s, 0)
  ELSE IF LISP_IS_SYMBOL(params)
    THEN
         [rest \in Any |->
         [unset \in Any |->
         [v \in Any |->
         [s1 \in Any |->
         [dv \in Any |->
             R(dv.s, dv.v)
         ][lisp_context_define_var(s1, new_ctx, params, v)
         ]
         ][IF unset THEN [rest.s EXCEPT !.used_uninit = TRUE] ELSE rest.s
         ]
         ][IF rest.tail = "value"
                    THEN (IF unset THEN s.uninit ELSE value)
                  ELSE IF Len(rest.cars) = 0 THEN LISP_EXCEPTION
                  ELSE ListWithTerm(rest.cars, rest.term)
         ]
         ][rest.tail = "value" /\ value = <<"uninit">>
         ]
         ][lisp_function_rest_args(s, ctx, args, "value", <<>>, LISP_NIL, d, id)
         ]
  ELSE
       [name \in Any |->
       [expr \in Any |->
       [ev \in Any |->
       [s1 \in Any |->
       [dv \in Any |->
           IF dv.v # 0 THEN R(dv.s, -1)
           ELSE
                [p \in Any |->
                [a \in Any |->
                    lisp_function_set_args(a.s, ctx, new_ctx, p.v, a.v, ev.v, d, id)
                ][lisp_cdr(p.s, ctx, args)
                ]
                ][lisp_cdr(dv.s, ctx, params)
                ]
       ][lisp_context_define_var(s1, new_ctx, name.v, ev.v)
       ]
       ][IF LISP_IS_EXCEPTION(expr.v) THEN ev.s
                 ELSE Logged(ev.s, [ev |-> "evalarg", id |-> id, expr |-> expr.v,
                                raised |-> LISP_IS_EXCEPTION(ev.v)])
       ]
       ][lisp_eval(expr.s, ctx, expr.v, d)
       ]
       ][lisp_car(name.s, ctx, args)
       ]
       ][lisp_car(s, ctx, params)
       ]

lisp_function_invoker(s, ctx, args, func, d) ==
  [id \in Any |->
  [c \in Any |->
  [s1 \in Any |->
  [sa \in Any |->
      IF sa.v = 0
        THEN lisp_eval_list(Logged(sa.s, [ev |-> "body", id |-> id]), c.v, fn_body(func),
                            LISP_NIL, d)
      ELSE R(sa.s, LISP_EXCEPTION)
  ][lisp_function_set_args(s1, ctx, c.v, fn_params(func), args, <<"uninit">>, d, id)
  ]
  ][Logged([c.s EXCEPT !.ncall = id],
                   [ev |-> "call", id |-> id, func |-> func, caller |-> ctx, args |-> args,
                    new_ctx |-> c.v, parent |-> c.s.ctxs[c.v].parent,
                    fresh |-> c.v \notin 1..Len(s.ctxs)])
  ]
  ][lisp_context_new_with_parent(s, fn_ctx(func), LISP_SYMBOL_STR(fn_name(func)))
  ]
  ][s.ncall + 1
  ]

\* ok is FALSE when NULL is returned; arr holds the values evaluated so far
lisp_eval_args_loop(s, ctx, heads, arr, d, id) ==
  IF Len(heads) = 0 THEN [s |-> s, ok |-> TRUE, arr |-> arr]
  ELSE
       [ev \in Any |->
       [s1 \in Any |->
           IF LISP_IS_EXCEPTION(ev.v) THEN [s |-> s1, ok |-> FALSE, arr |-> arr]
           ELSE lisp_eval_args_loop(s1, ctx, Tail(heads), Append(arr, ev.v), d, id)
       ][Logged(ev.s, [ev |-> "evalarg", id |-> id, expr |-> Head(heads),
                                raised |-> LISP_IS_EXCEPTION(ev.v)])
       ]
       ][lisp_eval(s, ctx, Head(heads), d)
       ]

\* lisp_eval_args without the comparison of max_arg with the number of
\* arguments
lisp_eval_args_unchecked(s, ctx, args, max_arg, d, id) ==
  [len \in Any |->
  [ex \in Any |->
      IF ex.res # 0 THEN [s |-> ex.s, ok |-> FALSE, argc |-> -1, argv |-> <<>>]
      ELSE
           [l \in Any |->
               IF ~l.ok THEN [s |-> l.s, ok |-> FALSE, argc |-> -1, argv |-> <<>>]
               ELSE [s |-> l.s, ok |-> TRUE, argc |-> len.v,
                     argv |-> Padded(l.arr, IF max_arg < len.v THEN len.v ELSE max_arg)]
           ][lisp_eval_args_loop(ex.s, ctx, ex.heads, <<>>, d, id)
           ]
  ][lisp_list_extract(len.s, ctx, args, len.v)
  ]
  ][lisp_list_length(s, ctx, args)
  ]

lisp_eval_args(s, ctx, args, max_arg, d, id) ==
  [len \in Any |->
  [argc \in Any |->
  LET fail(s1) == [s |-> s1, ok |-> FALSE, argc |-> -1, argv |-> <<>>]
  IN
      IF max_arg # -1 /\ max_arg < argc
        THEN fail(lisp_throw_internal_error(len.s, ctx, "too many arguments").s)
      ELSE
           [length \in Any |->
           [ex \in Any |->
               IF ex.res # 0 THEN fail(ex.s)
               ELSE
                    [l \in Any |->
                        IF ~l.ok THEN fail(l.s)
                        ELSE [s |-> l.s, ok |-> TRUE, argc |-> argc,
                              argv |-> Padded(l.arr, length)]
                    ][lisp_eval_args_loop(ex.s, ctx, ex.heads, <<>>, d, id)
                    ]
           ][lisp_list_extract(len.s, ctx, args, argc)
           ]
           ][IF max_arg = -1 THEN argc ELSE max_arg
           ]
  ][len.v
  ]
  ][lisp_list_length(s, ctx, args)
  ]

(***************************************************************************)
(* Native procedures                                                       *)
(***************************************************************************)
lisp_new_vector(s, ctx, n, elems) ==
  R([s EXCEPT !.vecs = Append(@, [length |-> n, capacity |-> n,
                                  data |-> [i \in 1..n |-> elems[i]]])],
    Vector(Len(s.vecs) + 1))

lisp_make_vector(s, ctx, argc, argv) ==
  IF argc < 1 THEN lisp_throw_internal_error(s, ctx, "require at least one argument")
  ELSE
       [k \in Any |->
           IF k.v # 0 THEN R(k.s, LISP_EXCEPTION)
           \* the size of the data array wraps to a size no allocation satisfies
           ELSE IF k.result < 0 THEN R(k.s, LISP_EXCEPTION)
           ELSE R([k.s EXCEPT !.vecs = Append(@, [length |-> k.result, capacity |-> k.result,
                                                  data |-> [i \in 1..k.result |-> argv[2]]])],
                  Vector(Len(k.s.vecs) + 1))
       ][lisp_to_int32(s, ctx, argv[1])
       ]

lisp_vector_copy(s, ctx, argc, argv) ==
  [vec \in Any |->
      IF ~vec.v THEN R(vec.s, LISP_EXCEPTION)
      ELSE lisp_new_vector(vec.s, ctx, s.vecs[argv[1][2]].length, s.vecs[argv[1][2]].data)
  ][lisp_get_object(s, ctx, argv[1], LISP_CLASS_VECTOR)
  ]

lisp_vector_length(s, ctx, argc, argv) ==
  [vec \in Any |->
      IF ~vec.v THEN R(Crash(vec.s), LISP_EXCEPTION)     \* vec->length with vec = NULL
      ELSE R(vec.s, LISP_INT32(s.vecs[argv[1][2]].length))
  ][lisp_get_object(s, ctx, argv[1], LISP_CLASS_VECTOR)
  ]

lisp_vector_capacity(s, ctx, argc, argv) ==
  [vec \in Any |->
      IF ~vec.v THEN R(Crash(vec.s), LISP_EXCEPTION)     \* vec->capacity with vec = NULL
      ELSE R(vec.s, LISP_INT32(s.vecs[argv[1][2]].capacity))
  ][lisp_get_object(s, ctx, argv[1], LISP_CLASS_VECTOR)
  ]

lisp_vector_ref(s, ctx, argc, argv) ==
  [vec \in Any |->
  [pos \in Any |->
      IF pos.v # 0 THEN R(pos.s, LISP_EXCEPTION)
      ELSE IF pos.result < 0 THEN lisp_throw_internal_error(pos.s, ctx, "Out of range")
      ELSE IF ~vec.v THEN R(Crash(pos.s), LISP_EXCEPTION)  \* vec->length with vec = NULL
      ELSE IF pos.result >= s.vecs[argv[1][2]].length
        THEN lisp_throw_internal_error(pos.s, ctx, "Out of range")
      ELSE R(pos.s, s.vecs[argv[1][2]].data[pos.result + 1])
  ][lisp_to_int32(vec.s, ctx, argv[2])
  ]
  ][lisp_get_object(s, ctx, argv[1], LISP_CLASS_VECTOR)
  ]

\* lisp_vector_set that leaves the vector alone and returns Nil when the
\* position is outside the vector
lisp_vector_set_silent(s, ctx, argc, argv) ==
  [vec \in Any |->
  [pos \in Any |->
      IF pos.v # 0 THEN R(pos.s, LISP_EXCEPTION)
      ELSE IF pos.result < 0 THEN R(pos.s, LISP_NIL)
      ELSE IF ~vec.v THEN R(Crash(pos.s), LISP_EXCEPTION)
      ELSE IF pos.result >= s.vecs[argv[1][2]].length THEN R(pos.s, LISP_NIL)
      ELSE R([pos.s EXCEPT !.vecs[argv[1][2]].data[pos.result + 1] = argv[3]], LISP_NIL)
  ][lisp_to_int32(vec.s, ctx, argv[2])
  ]
  ][lisp_get_object(s, ctx, argv[1], LISP_CLASS_VECTOR)
  ]

lisp_vector_set(s, ctx, argc, argv) ==
  [vec \in Any |->
  [pos \in Any |->
      IF pos.v # 0 THEN R(pos.s, LISP_EXCEPTION)
      ELSE IF pos.result < 0 THEN lisp_throw_internal_error(pos.s, ctx, "Out of range")
      ELSE IF ~vec.v THEN R(Crash(pos.s), LISP_EXCEPTION)  \* vec->length with vec = NULL
      ELSE IF pos.result >= s.vecs[argv[1][2]].length
        THEN lisp_throw_internal_error(pos.s, ctx, "Out of range")
      ELSE R([pos.s EXCEPT !.vecs[argv[1][2]].data[pos.result + 1] = argv[3]], LISP_NIL)
  ][lisp_to_int32(vec.s, ctx, argv[2])
  ]
  ][lisp_get_object(s, ctx, argv[1], LISP_CLASS_VECTOR)
  ]

lisp_display(s, ctx, argc, argv) ==
  R([s EXCEPT !.out = @ \o [i \in 1..argc |-> <<"display", argv[i]>>]], LISP_NIL)

RECURSIVE lisp_less(_, _, _, _, _)
lisp_less(s, ctx, argc, argv, i) ==
  IF i + 1 >= argc THEN R(s, LISP_TRUE)
  ELSE
       [v1 \in Any |->
           IF v1.v # 0 THEN R(v1.s, LISP_EXCEPTION)
           ELSE
                [v2 \in Any |->
                    IF v2.v # 0 THEN R(v2.s, LISP_EXCEPTION)
                    ELSE IF ~(v1.result < v2.result) THEN R(v2.s, LISP_FALSE)
                    ELSE lisp_less(v2.s, ctx, argc, argv, i + 1)
                ][lisp_to_int32(v1.s, ctx, argv[i + 2])
                ]
       ][lisp_to_int32(s, ctx, argv[i + 1])
       ]

RECURSIVE lisp_sum(_, _, _, _, _, _)
lisp_sum(s, ctx, argc, argv, i, sum) ==
  IF i >= argc THEN R(s, LISP_INT32(sum))
  ELSE
       [v \in Any |->
           IF v.v # 0 THEN R(v.s, LISP_EXCEPTION)
           ELSE lisp_sum(v.s, ctx, argc, argv, i + 1, sum + v.result)
       ][lisp_to_int32(s, ctx, argv[i + 1])
       ]

RECURSIVE lisp_subtract_loop(_, _, _, _, _, _)
lisp_subtract_loop(s, ctx, argc, argv, i, result) ==
  IF i >= argc THEN R(s, LISP_INT32(result))
  ELSE
       [v \in Any |->
           IF v.v # 0 THEN R(v.s, LISP_EXCEPTION)
           ELSE lisp_subtract_loop(v.s, ctx, argc, argv, i + 1, result - v.result)
       ][lisp_to_int32(s, ctx, argv[i + 1])
       ]

lisp_subtract(s, ctx, argc, argv) ==
  IF argc = 0 THEN R(s, LISP_INT32(0))
  ELSE
       [r \in Any |->
           IF r.v # 0 THEN R(r.s, LISP_EXCEPTION)
           ELSE IF argc = 1 THEN R(r.s, LISP_INT32(0 - r.result))
           ELSE lisp_subtract_loop(r.s, ctx, argc, argv, 1, r.result)
       ][lisp_to_int32(s, ctx, argv[1])
       ]

lisp_cfunc_invoker(s, ctx, args, func, d) ==
  [id \in Any |->
  [s1 \in Any |->
  [a \in Any |->
      IF ~a.ok THEN R(a.s, LISP_EXCEPTION)
      ELSE
           [tmp \in Any |->
           [cfunc \in Any |->
           [r \in Any |->
               R(Logged(r.s, [ev |-> "return", id |-> id, cfunc |-> cfunc, argv |-> a.argv,
                              vecs |-> tmp.s.vecs, before |-> tmp.s.exception_list,
                              vecs_after |-> r.s.vecs, after |-> r.s.exception_list,
                              value |-> r.v]), r.v)
           ][
               CASE cfunc = "lisp_eval_" -> lisp_eval(tmp.s, tmp.v, a.argv[1], d)
                 [] cfunc = "lisp_make_vector" -> lisp_make_vector(tmp.s, tmp.v, a.argc, a.argv)
                 [] cfunc = "lisp_new_vector" -> lisp_new_vector(tmp.s, tmp.v, a.argc, a.argv)
                 [] cfunc = "lisp_vector_copy" -> lisp_vector_copy(tmp.s, tmp.v, a.argc, a.argv)
                 [] cfunc = "lisp_vector_length" -> lisp_vector_length(tmp.s, tmp.v, a.argc, a.argv)
                 [] cfunc = "lisp_vector_capacity" -> lisp_vector_capacity(tmp.s, tmp.v, a.argc, a.argv)
                 [] cfunc = "lisp_vector_ref" -> lisp_vector_ref(tmp.s, tmp.v, a.argc, a.argv)
                 [] cfunc = "lisp_vector_set" -> lisp_vector_set(tmp.s, tmp.v, a.argc, a.argv)
                 [] cfunc = "lisp_sum" -> lisp_sum(tmp.s, tmp.v, a.argc, a.argv, 0, 0)
                 [] cfunc = "lisp_subtract" -> lisp_subtract(tmp.s, tmp.v, a.argc, a.argv)
                 [] cfunc = "lisp_less" -> lisp_less(tmp.s, tmp.v, a.argc, a.argv, 0)
                 [] cfunc = "lisp_display" -> lisp_display(tmp.s, tmp.v, a.argc, a.argv)
                 [] OTHER -> R(tmp.s, LISP_NIL)       \* lisp_dump_runtime, lisp_gc_
           ]
           ][fn_cfunc(func)
           ]
           ][lisp_context_new_with_parent(Logged(a.s, [ev |-> "body", id |-> id]),
                                                   ctx, "#CFUNC")
           ]
  ][lisp_eval_args(s1, ctx, args, fn_arg_max(func), d, id)
  ]
  ][Logged([s EXCEPT !.ncall = id],
                   [ev |-> "call", id |-> id, func |-> func, caller |-> ctx, args |-> args,
                    new_ctx |-> 0, parent |-> 0, fresh |-> TRUE])
  ]
  ][s.ncall + 1
  ]

(***************************************************************************)
(* Special forms                                                           *)
(***************************************************************************)
lisp_define(s, ctx, args, d) ==
  [sig \in Any |->
      IF LISP_IS_LIST(sig.v)
        THEN
             [name \in Any |->
             [params \in Any |->
             [body \in Any |->
             [func \in Any |->
             [dv \in Any |->
                 IF dv.v # 0 THEN R(dv.s, LISP_EXCEPTION) ELSE R(dv.s, LISP_NIL)
             ][lisp_context_define_var(func.s, ctx, name.v, func.v)
             ]
             ][lisp_new_function(body.s, ctx, name.v, params.v, body.v,
                                           "lisp_function_invoker")
             ]
             ][lisp_cdr(params.s, ctx, args)
             ]
             ][lisp_cdr(name.s, ctx, sig.v)
             ]
             ][lisp_car(sig.s, ctx, sig.v)
             ]
      ELSE IF LISP_IS_SYMBOL(sig.v)
        THEN
             [tmp \in Any |->
             [expr \in Any |->
             [value \in Any |->
             [dv \in Any |->
                 IF dv.v # 0 THEN R(dv.s, LISP_EXCEPTION) ELSE R(dv.s, LISP_NIL)
             ][lisp_context_define_var(value.s, ctx, sig.v, value.v)
             ]
             ][lisp_eval(expr.s, ctx, expr.v, d)
             ]
             ][lisp_car(tmp.s, ctx, tmp.v)
             ]
             ][lisp_cdr(sig.s, ctx, args)
             ]
      ELSE lisp_throw_internal_error(sig.s, ctx, "Invalid syntax")
  ][lisp_car(s, ctx, args)
  ]

lisp_set_(s, ctx, args, d) ==
  [val \in Any |->
      IF val.res # 0 THEN R(val.s, LISP_EXCEPTION)
      ELSE
           [v \in Any |->
               lisp_context_set_var(v.s, ctx, val.heads[1], v.v)
           ][lisp_eval(val.s, ctx, val.heads[2], d)
           ]
  ][lisp_list_extract(s, ctx, args, 2)
  ]

\* ok is FALSE at the label fail
lisp_let_loop(s, ctx, new_ctx, variables, magic, d) ==
  IF LISP_IS_NIL(variables) THEN [s |-> s, ok |-> TRUE, new_ctx |-> new_ctx]
  ELSE
       [binding \in Any |->
           IF binding.res # 0 THEN [s |-> binding.s, ok |-> FALSE, new_ctx |-> new_ctx]
           ELSE
                [val \in Any |->
                    IF val.res # 0 THEN [s |-> val.s, ok |-> FALSE, new_ctx |-> new_ctx]
                    ELSE
                         [tmp \in Any |->
                         [v \in Any |->
                         [s1 \in Any |->
                         [dv \in Any |->
                             IF dv.v # 0 THEN [s |-> dv.s, ok |-> FALSE, new_ctx |-> tmp.v]
                             ELSE lisp_let_loop(dv.s, ctx, tmp.v, binding.tail, magic, d)
                         ][lisp_context_define_var(s1, tmp.v, val.heads[1], v.v)
                         ]
                         ][Logged(v.s, [ev |-> "init", magic |-> magic, ctx |-> ctx,
                                        new_ctx |-> tmp.v, name |-> val.heads[1],
                                        expr |-> val.heads[2], value |-> v.v,
                                        env |-> IF magic = LISP_MAGIC_LET
                                                     \/ magic = LISP_MAGIC_LETREC
                                                  THEN tmp.v ELSE ctx,
                                        before |-> tmp.s.ctxs])
                         ]
                         ][IF magic = LISP_MAGIC_LET \/ magic = LISP_MAGIC_LETREC
                                    THEN lisp_eval(tmp.s, tmp.v, val.heads[2], d)
                                  ELSE lisp_eval(tmp.s, ctx, val.heads[2], d)
                         ]
                         ][IF magic = LISP_MAGIC_LETSTAR
                                      THEN lisp_context_new_with_parent(val.s, new_ctx, "#LET*")
                                    ELSE R(val.s, new_ctx)
                         ]
                ][lisp_list_extract(binding.s, ctx, binding.heads[1], 2)
                ]
       ][lisp_list_extract(s, ctx, variables, 1)
       ]

lisp_let(s, ctx, args, magic, d) ==
  [e \in Any |->
      IF e.res # 0 THEN R(e.s, LISP_EXCEPTION)
      ELSE
           [c \in Any |->
           [l \in Any |->
               IF ~l.ok THEN R(l.s, LISP_EXCEPTION)
               ELSE lisp_eval_list(l.s, l.new_ctx, e.tail, LISP_NIL, d)
           ][lisp_let_loop(c.s, ctx, c.v, e.heads[1], magic, d)
           ]
           ][lisp_context_new_with_parent(e.s, ctx, "LET")
           ]
  ][lisp_list_extract(s, ctx, args, 1)
  ]

lisp_quote(s, ctx, list) == lisp_car(s, ctx, list)

\* lisp_if that goes on to the forms after the then-branch when the
\* condition is true
lisp_if_falling_through(s, ctx, args, d) ==
  [e \in Any |->
      IF e.res # 0 THEN R(e.s, LISP_EXCEPTION)
      ELSE
           [cond_v \in Any |->
           [cond \in Any |->
               IF cond.v # 0 THEN R(cond.s, LISP_EXCEPTION)
               ELSE IF cond.res # 0
                 THEN
                      [t \in Any |->
                          lisp_eval_list(t.s, ctx, e.tail, t.v, d)
                      ][lisp_eval(cond.s, ctx, e.heads[2], d)
                      ]
               ELSE lisp_eval_list(cond.s, ctx, e.tail, LISP_NIL, d)
           ][lisp_to_bool(cond_v.s, ctx, cond_v.v)
           ]
           ][lisp_eval(e.s, ctx, e.heads[1], d)
           ]
  ][lisp_list_extract(s, ctx, args, 2)
  ]

lisp_if(s, ctx, args, d) ==
  [e \in Any |->
      IF e.res # 0 THEN R(e.s, LISP_EXCEPTION)
      ELSE
           [cond_v \in Any |->
           [cond \in Any |->
               IF cond.v # 0 THEN R(cond.s, LISP_EXCEPTION)
               ELSE IF cond.res # 0 THEN lisp_eval(cond.s, ctx, e.heads[2], d)
               ELSE lisp_eval_list(cond.s, ctx, e.tail, LISP_NIL, d)
           ][lisp_to_bool(cond_v.s, ctx, cond_v.v)
           ]
           ][lisp_eval(e.s, ctx, e.heads[1], d)
           ]
  ][lisp_list_extract(s, ctx, args, 2)
  ]

lisp_cond(s, ctx, args, d) ==
  IF LISP_IS_NIL(args) THEN R(s, LISP_NIL)
  ELSE
       [clause \in Any |->
           IF clause.res # 0 THEN R(clause.s, LISP_EXCEPTION)
           ELSE
                [c \in Any |->
                    IF c.res # 0 THEN R(c.s, LISP_EXCEPTION)
                    ELSE
                         [condition \in Any |->
                         [else \in Any |->
                             IF else /\ ~LISP_IS_NIL(clause.tail)
                               THEN lisp_throw_internal_error(c.s, ctx,
                                      "ELSE must be the last clause in COND")
                             ELSE
                                  [cv \in Any |->
                                  [value \in Any |->
                                      IF LISP_IS_EXCEPTION(cv.v) THEN R(cv.s, LISP_EXCEPTION)
                                      ELSE IF value.v # 0 THEN R(value.s, LISP_EXCEPTION)
                                      ELSE IF value.res # 0
                                        THEN lisp_eval_list(value.s, ctx, c.tail, LISP_NIL, d)
                                      ELSE lisp_cond(value.s, ctx, clause.tail, d)
                                  ][lisp_to_bool(cv.s, ctx, cv.v)
                                  ]
                                  ][IF else THEN R(c.s, LISP_TRUE)
                                            ELSE lisp_eval(c.s, ctx, condition, d)
                                  ]
                         ][LISP_IS_SYMBOL(condition) /\ condition = Symbol("ELSE")
                         ]
                         ][c.heads[1]
                         ]
                ][lisp_list_extract(clause.s, ctx, clause.heads[1], 1)
                ]
       ][lisp_list_extract(s, ctx, args, 1)
       ]

lisp_named_lambda(s, ctx, args) ==
  [params \in Any |->
  [body \in Any |->
  [name \in Any |->
  [rest \in Any |->
      lisp_new_function(rest.s, ctx, name.v, rest.v, body.v, "lisp_function_invoker")
  ][lisp_cdr(name.s, ctx, params.v)
  ]
  ][lisp_car(body.s, ctx, params.v)
  ]
  ][lisp_cdr(params.s, ctx, args)
  ]
  ][lisp_car(s, ctx, args)
  ]

lisp_lambda(s, ctx, args) ==
  [params \in Any |->
  [body \in Any |->
      lisp_new_function(body.s, ctx, Symbol("#[LAMBDA]"), params.v, body.v,
                        "lisp_function_invoker")
  ][lisp_cdr(params.s, ctx, args)
  ]
  ][lisp_car(s, ctx, args)
  ]

lisp_begin(s, ctx, args, d) == lisp_eval_list(s, ctx, args, LISP_NIL, d)

(***************************************************************************)
(* The evaluator.  d is the room left on the host stack.                   *)
(***************************************************************************)
lisp_eval(s, ctx, val, d) ==
  IF s.crash THEN R(s, LISP_EXCEPTION)
  ELSE IF d = 0 THEN R(Crash(s), LISP_EXCEPTION)
  ELSE IF LISP_IS_LIST(val) /\ ~LISP_IS_NIL(val)
    THEN
         [func_expr \in Any |->
         [func \in Any |->
             IF LISP_IS_EXCEPTION(func.v) THEN R(func.s, LISP_EXCEPTION)
             ELSE IF lisp_is_class(func.v, LISP_CLASS_FUNCTION)
               THEN
                    [args \in Any |->
                        IF fn_invoker(func.v) = "lisp_cfunc_invoker"
                          THEN lisp_cfunc_invoker(args.s, ctx, args.v, func.v, d - 1)
                        ELSE lisp_function_invoker(args.s, ctx, args.v, func.v, d - 1)
                    ][lisp_cdr(func.s, ctx, val)
                    ]
             ELSE IF lisp_is_class(func.v, LISP_CLASS_SYNTAX)
               THEN
                    [args \in Any |->
                    [f \in Any |->
                    [magic \in Any |->
                        CASE f = "lisp_begin" -> lisp_begin(args.s, ctx, args.v, d - 1)
                          [] f = "lisp_cond" -> lisp_cond(args.s, ctx, args.v, d - 1)
                          [] f = "lisp_define" -> lisp_define(args.s, ctx, args.v, d - 1)
                          [] f = "lisp_if" -> lisp_if(args.s, ctx, args.v, d - 1)
                          [] f = "lisp_named_lambda" -> lisp_named_lambda(args.s, ctx, args.v)
                          [] f = "lisp_lambda" -> lisp_lambda(args.s, ctx, args.v)
                          [] f = "lisp_let" -> lisp_let(args.s, ctx, args.v, magic, d - 1)
                          [] f = "lisp_quote" -> lisp_quote(args.s, ctx, args.v)
                          [] f = "lisp_set_" -> lisp_set_(args.s, ctx, args.v, d - 1)
                    ][func.v[3]
                    ]
                    ][func.v[2]
                    ]
                    ][lisp_cdr(func.s, ctx, val)
                    ]
             ELSE R(lisp_throw_internal_error(func.s, ctx, "Need a function").s,
                    LISP_EXCEPTION)
         ][lisp_eval(func_expr.s, ctx, func_expr.v, d - 1)
         ]
         ][lisp_car(s, ctx, val)
         ]
  ELSE IF LISP_IS_SYMBOL(val) THEN lisp_context_get_var(s, ctx, val)
  ELSE R(s, val)

(***************************************************************************)
(* The global context                                                      *)
(***************************************************************************)
lisp_define_cfunc(s, ctx, name, cfunc, n) ==
  [f \in Any |->
      lisp_context_define_var(f.s, ctx, Symbol(name), f.v).s
  ][lisp_new_cfunc(s, ctx, name, cfunc, n)
  ]

lisp_define_syntax(s, ctx, name, func, magic) ==
  lisp_context_define_var(s, ctx, Symbol(name), Syntax(func, magic)).s

\* the definitions of lisp_new_global_context, in its order
GlobalDefinitions ==
  << <<"macro", "BEGIN", "lisp_begin", 0>>,
     <<"macro", "COND", "lisp_cond", 0>>,
     <<"macro", "DEFINE", "lisp_define", 0>>,
     <<"macro", "IF", "lisp_if", 0>>,
     <<"macro", "NAMED-LAMBDA", "lisp_named_lambda", 0>>,
     <<"macro", "LAMBDA", "lisp_lambda", 0>>,
     <<"macro", "LET", "lisp_let", LISP_MAGIC_LET>>,
     <<"macro", "LET*", "lisp_let", LISP_MAGIC_LETSTAR>>,
     <<"macro", "LETREC", "lisp_let", LISP_MAGIC_LETREC>>,
     <<"macro", "QUOTE", "lisp_quote", 0>>,
     <<"macro", "SET!", "lisp_set_", 0>>,
     <<"cfunc", "EVAL", "lisp_eval_", 1>>,
     <<"cfunc", "MAKE-VECTOR", "lisp_make_vector", 2>>,
     <<"cfunc", "VECTOR", "lisp_new_vector", -1>>,
     <<"cfunc", "VECTOR-COPY", "lisp_vector_copy", 1>>,
     <<"cfunc", "VECTOR-LENGTH", "lisp_vector_length", 1>>,
     <<"cfunc", "VECTOR-CAPACITY", "lisp_vector_capacity", 1>>,
     <<"cfunc", "VECTOR-REF", "lisp_vector_ref", 2>>,
     <<"cfunc", "VECTOR-SET!", "lisp_vector_set", 3>>,
     <<"var", "#T", LISP_TRUE, 0>>,
     <<"var", "#F", LISP_FALSE, 0>>,
     <<"var", "NIL", LISP_NIL, 0>>,
     <<"cfunc", "+", "lisp_sum", -1>>,
     <<"cfunc", "-", "lisp_subtract", -1>>,
     <<"cfunc", "<", "lisp_less", -1>>,
     <<"cfunc", "DISPLAY", "lisp_display", -1>>,
     <<"cfunc", "DUMP-RUNTIME", "lisp_dump_runtime", 0>>,
     <<"cfunc", "GC", "lisp_gc_", 0>> >>

\* the definitions are made one after the other; the sequence is halved to
\* keep the evaluation shallow
RECURSIVE DefineAll(_, _, _)
DefineAll(s, ctx, defs) ==
  IF Len(defs) = 0 THEN s
  ELSE IF Len(defs) = 1
    THEN
         [def \in Any |->
             CASE def[1] = "macro" -> lisp_define_syntax(s, ctx, def[2], def[3], def[4])
               [] def[1] = "cfunc" -> lisp_define_cfunc(s, ctx, def[2], def[3], def[4])
               [] def[1] = "var" ->
                    lisp_context_define_var(s, ctx, Symbol(def[2]), def[3]).s
         ][defs[1]
         ]
  ELSE
       [half \in Any |->
       [s1 \in Any |->
           IF s1.crash THEN s1 ELSE DefineAll(s1, ctx, SubSeq(defs, half + 1, Len(defs)))
       ][DefineAll(s, ctx, SubSeq(defs, 1, half))
       ]
       ][Len(defs) \div 2
       ]

\* lisp_runtime_new
EmptyRuntime ==
  [ctxs |-> <<>>, vecs |-> <<>>, exception_list |-> <<>>, out |-> <<>>, log |-> <<>>,
   crash |-> FALSE, uninit |-> LISP_NIL, used_uninit |-> FALSE, ncall |-> 0]

lisp_new_global_context(s) ==
  [ctx \in Any |->
  [s1 \in Any |->
      lisp_context_new_with_parent(s1, ctx.v, "TOP-LEVEL")
  ][DefineAll(ctx.s, ctx.v, GlobalDefinitions)
  ]
  ][lisp_context_new_with_parent(s, 0, "<GLOBAL>")
  ]

GlobalContext == lisp_new_global_context(EmptyRuntime)

\* the context the driver evaluates in
TopLevel == GlobalContext.v

(***************************************************************************)
(* The reference-counted variant (the first half of lisp.c).  Every        *)
(* builtin is a function whose invoker receives the unevaluated argument   *)
(* list.  Reference counts are not modelled: a value is the structure it   *)
(* points to.                                                              *)
(***************************************************************************)
rc_lisp_throw(s, ctx, error) ==
  R([s EXCEPT !.exception_list = <<error>> \o @], LISP_EXCEPTION)

rc_lisp_throw_internal_error(s, ctx, msg) == rc_lisp_throw(s, ctx, String(msg))

\* v is TRUE when the object pointer is returned, FALSE for NULL
rc_lisp_get_object(s, ctx, val, tag) ==
  IF ~(IF tag = LISP_CLASS_PAIR THEN LISP_IS_LIST(val) ELSE lisp_is_class(val, tag))
    THEN R(rc_lisp_throw_internal_error(s, ctx, "Type mismatch").s, FALSE)
  ELSE IF LISP_IS_NIL(val)
    THEN R(rc_lisp_throw_internal_error(s, ctx, "Object pointer not set").s, FALSE)
  ELSE R(s, TRUE)

rc_lisp_car(s, ctx, val) ==
  [cons \in Any |->
      IF ~cons.v THEN R(cons.s, LISP_EXCEPTION) ELSE R(cons.s, val[2])
  ][rc_lisp_get_object(s, ctx, val, LISP_CLASS_PAIR)
  ]

rc_lisp_cdr(s, ctx, val) ==
  [cons \in Any |->
      IF ~cons.v THEN R(cons.s, LISP_EXCEPTION) ELSE R(cons.s, val[3])
  ][rc_lisp_get_object(s, ctx, val, LISP_CLASS_PAIR)
  ]

rc_lisp_new_cons(s, ctx, car, cdr) == R(s, Pair(car, cdr))

\* v is 0 or -1
rc_lisp_to_int32(s, ctx, val) ==
  IF LISP_IS_EXCEPTION(val) THEN [s |-> s, v |-> -1, result |-> 0]
  ELSE IF LISP_IS_INT(val) THEN [s |-> s, v |-> 0, result |-> val[2]]
  ELSE [s |-> rc_lisp_throw_internal_error(s, ctx, "Value error").s, v |-> -1, result |-> 0]

\* snprintf (r, 20, "%d", val.i32)
RECURSIVE Decimal(_)
Decimal(n) ==
  LET Digit == <<"0", "1", "2", "3", "4", "5", "6", "7", "8", "9">>
  IN  IF n < 0 THEN "-" \o Decimal(0 - n)
      ELSE IF n < 10 THEN Digit[n + 1]
      ELSE Decimal(n \div 10) \o Digit[(n % 10) + 1]

\* the strings of the values the driver's forms print
rc_lisp_value_to_string(val) ==
  CASE LISP_IS_INT(val) -> Decimal(val[2])
    [] LISP_IS_BOOL(val) -> IF val[2] # 0 THEN "#T" ELSE "#F"
    [] LISP_IS_NIL(val) -> "()"
    [] LISP_IS_SYMBOL(val) -> LISP_SYMBOL_STR(val)
    [] lisp_is_class(val, LISP_CLASS_FUNCTION) -> "#OBJECT"

rc_lisp_context_new_with_parent(s, parent, name) ==
  R([s EXCEPT !.ctxs = Append(@, [name |-> name, parent |-> parent, vars |-> <<>>])],
    Len(s.ctxs) + 1)

\* the frames a call created are freed before it returns, so that the
\* context freed is the last one created
rc_lisp_context_free(s, ctx) == [s EXCEPT !.ctxs = SubSeq(@, 1, ctx - 1)]

\* <<frame, cell>> of the variable, <<0, 0>> for NULL
RECURSIVE rc_lisp_context_find_variable(_, _, _)
rc_lisp_context_find_variable(cs, ctx, name) ==
  [found \in Any |->
      IF found # {} THEN <<ctx, CHOOSE i \in found : \A j \in found : i <= j>>
      ELSE IF cs[ctx].parent # 0 THEN rc_lisp_context_find_variable(cs, cs[ctx].parent, name)
      ELSE <<0, 0>>
  ][{i \in 1..Len(cs[ctx].vars) :
                  LISP_IS_SYMBOL(cs[ctx].vars[i][1]) /\ LISP_IS_SYMBOL(name)
                  /\ LISP_SYMBOL_STR(cs[ctx].vars[i][1]) = LISP_SYMBOL_STR(name)}
  ]

\* list_add (&var->list, &ctx->var_list)
rc_lisp_set_value_in_context(s, ctx, name, value) ==
  R([s EXCEPT !.ctxs[ctx].vars = <<<<name, value>>>> \o @], 0)

rc_lisp_new_function(s, ctx, params, body, invoker) ==
  \* ctx is the context whose object_list the function is added to
  R(s, Function(invoker, Symbol("#LAMBDA"), params, body, ctx, "", 0))

\* v is 0 or -1
rc_lisp_set_function_name(s, ctx, function, name) ==
  [fn \in Any |->
      IF ~fn.v THEN R(fn.s, <<-1, function>>)
      ELSE R(fn.s, <<0, Function(fn_invoker(function), name, fn_params(function),
                                 fn_body(function), fn_ctx(function), "", 0)>>)
  ][rc_lisp_get_object(s, ctx, function, LISP_CLASS_FUNCTION)
  ]

RECURSIVE rc_lisp_eval(_, _, _, _)
RECURSIVE rc_lisp_eval_list(_, _, _, _, _)
RECURSIVE rc_lisp_setq_loop(_, _, _, _, _, _)
RECURSIVE rc_lisp_function_set_args_loop(_, _, _, _, _)
RECURSIVE rc_lisp_plus_loop(_, _, _, _, _, _)
RECURSIVE rc_lisp_print_loop(_, _, _, _, _)

\* var_list is the local list of the new variables, the last one first; id
\* is the call whose arguments the values are, 0 for the form SETQ
rc_lisp_setq_loop(s, ctx, params, var_list, d, id) ==
  IF LISP_IS_NIL(params) \/ s.crash THEN R(s, var_list)
  \* the cdr of Exception is Exception: the loop never ends
  ELSE IF ~LISP_IS_LIST(params) THEN R(Crash(s), var_list)
  ELSE
       [name \in Any |->
       [tmp \in Any |->
       [value_exp \in Any |->
       [value \in Any |->
       [s1 \in Any |->
       [next \in Any |->
           rc_lisp_setq_loop(next.s, ctx, next.v, <<<<name.v, value.v>>>> \o var_list, d, id)
       ][rc_lisp_cdr(s1, ctx, tmp.v)
       ]
       ][IF id = 0 THEN value.s
                 ELSE Logged(value.s, [ev |-> "evalarg", id |-> id, expr |-> value_exp.v,
                                       raised |-> LISP_IS_EXCEPTION(value.v)])
       ]
       ][rc_lisp_eval(value_exp.s, ctx, value_exp.v, d)
       ]
       ][rc_lisp_car(tmp.s, ctx, tmp.v)
       ]
       ][rc_lisp_cdr(name.s, ctx, params)
       ]
       ][rc_lisp_car(s, ctx, params)
       ]

\* list_splice (&var_list, &ctx->var_list)
rc_lisp_setq(s, ctx, params, d, id) ==
  [l \in Any |->
      R([l.s EXCEPT !.ctxs[ctx].vars = l.v \o @], LISP_NIL)
  ][rc_lisp_setq_loop(s, ctx, params, <<>>, d, id)
  ]

\* v is the list (pN aN ... p1 a1)
rc_lisp_function_set_args_loop(s, ctx, params, args, list) ==
  IF LISP_IS_NIL(params) THEN R(s, list)
  \* the cdr of Exception is Exception: the loop never ends
  ELSE IF ~LISP_IS_LIST(params) THEN R(Crash(s), list)
  ELSE
       [a \in Any |->
       [p \in Any |->
       [ps \in Any |->
       [as \in Any |->
           rc_lisp_function_set_args_loop(as.s, ctx, ps.v, as.v,
                                          Pair(p.v, Pair(a.v, list)))
       ][rc_lisp_cdr(ps.s, ctx, args)
       ]
       ][rc_lisp_cdr(p.s, ctx, params)
       ]
       ][rc_lisp_car(a.s, ctx, params)
       ]
       ][rc_lisp_car(s, ctx, args)
       ]

rc_lisp_function_set_args(s, ctx, params, args, d, id) ==
  [list \in Any |->
      IF list.s.crash THEN R(list.s, 0)
      ELSE R(rc_lisp_setq(list.s, ctx, list.v, d, id).s, 0)
  ][rc_lisp_function_set_args_loop(s, ctx, params, args, LISP_NIL)
  ]

rc_lisp_eval_list(s, ctx, list, val, d) ==
  IF LISP_IS_NIL(list) \/ s.crash THEN R(s, val)
  \* the cdr of Exception is Exception: the loop never ends
  ELSE IF ~LISP_IS_LIST(list) THEN R(Crash(s), val)
  ELSE
       [exp \in Any |->
       [v \in Any |->
       [tmp \in Any |->
           rc_lisp_eval_list(tmp.s, ctx, tmp.v, v.v, d)
       ][rc_lisp_cdr(v.s, ctx, list)
       ]
       ][rc_lisp_eval(exp.s, ctx, exp.v, d)
       ]
       ][rc_lisp_car(s, ctx, list)
       ]

rc_lisp_function_invoker(s, ctx, args, func, d) ==
  \* LISP_SYMBOL_STR (func->name) reads the name field of whatever name points to
  IF ~LISP_IS_SYMBOL(fn_name(func)) THEN R(Crash(s), LISP_EXCEPTION)
  ELSE
       [id \in Any |->
       [c \in Any |->
       [s1 \in Any |->
       [sa \in Any |->
       [val \in Any |->
           IF val.s.crash THEN val ELSE R(rc_lisp_context_free(val.s, c.v), val.v)
       ][rc_lisp_eval_list(Logged(sa.s, [ev |-> "body", id |-> id]), c.v,
                                    fn_body(func), LISP_NIL, d)
       ]
       ][rc_lisp_function_set_args(s1, c.v, fn_params(func), args, d, id)
       ]
       ][Logged([c.s EXCEPT !.ncall = id],
                        [ev |-> "call", id |-> id, func |-> func, caller |-> ctx,
                         args |-> args, new_ctx |-> c.v, parent |-> c.s.ctxs[c.v].parent,
                         fresh |-> c.v \notin 1..Len(s.ctxs)])
       ]
       ][rc_lisp_context_new_with_parent(s, ctx, LISP_SYMBOL_STR(fn_name(func)))
       ]
       ][s.ncall + 1
       ]

rc_lisp_define(s, ctx, args, d) ==
  [sig \in Any |->
      IF LISP_IS_LIST(sig.v)
        THEN
             [name \in Any |->
             [params \in Any |->
             [body \in Any |->
             [func \in Any |->
             [named \in Any |->
                 R(rc_lisp_set_value_in_context(named.s, ctx, name.v, named.v[2]).s, LISP_NIL)
             ][rc_lisp_set_function_name(func.s, ctx, func.v, name.v)
             ]
             ][rc_lisp_new_function(body.s, ctx, params.v, body.v,
                                              "lisp_function_invoker")
             ]
             ][rc_lisp_cdr(params.s, ctx, args)
             ]
             ][rc_lisp_cdr(name.s, ctx, sig.v)
             ]
             ][rc_lisp_car(sig.s, ctx, sig.v)
             ]
      ELSE IF LISP_IS_SYMBOL(sig.v)
        THEN
             [tmp \in Any |->
             [expr \in Any |->
             [value \in Any |->
                 R(rc_lisp_set_value_in_context(value.s, ctx, sig.v, value.v).s, LISP_NIL)
             ][rc_lisp_eval(expr.s, ctx, expr.v, d)
             ]
             ][rc_lisp_car(tmp.s, ctx, tmp.v)
             ]
             ][rc_lisp_cdr(sig.s, ctx, args)
             ]
      ELSE rc_lisp_throw_internal_error(sig.s, ctx, "Invalid syntax")
  ][rc_lisp_car(s, ctx, args)
  ]

rc_lisp_quote(s, ctx, list) == rc_lisp_car(s, ctx, list)

rc_lisp_plus_loop(s, ctx, list, sum, d, id) ==
  IF LISP_IS_NIL(list) \/ s.crash THEN R(s, LISP_INT32(sum))
  ELSE
       [tmp \in Any |->
       [val \in Any |->
       [s1 \in Any |->
       [num \in Any |->
       [next \in Any |->
           IF num.v # 0 THEN R(num.s, LISP_EXCEPTION)
           ELSE rc_lisp_plus_loop(next.s, ctx, next.v, sum + num.result, d, id)
       ][rc_lisp_cdr(num.s, ctx, list)
       ]
       ][rc_lisp_to_int32(s1, ctx, val.v)
       ]
       ][Logged(val.s, [ev |-> "evalarg", id |-> id, expr |-> tmp.v,
                                raised |-> LISP_IS_EXCEPTION(val.v)])
       ]
       ][rc_lisp_eval(tmp.s, ctx, tmp.v, d)
       ]
       ][rc_lisp_car(s, ctx, list)
       ]

rc_lisp_plus(s, ctx, args, func, d) ==
  [id \in Any |->
  [s1 \in Any |->
  [r \in Any |->
      IF LISP_IS_EXCEPTION(r.v) THEN r
      ELSE R(Logged(r.s, [ev |-> "body", id |-> id]), r.v)
  ][rc_lisp_plus_loop(s1, ctx, args, 0, d, id)
  ]
  ][Logged([s EXCEPT !.ncall = id],
                   [ev |-> "call", id |-> id, func |-> func, caller |-> ctx, args |-> args,
                    new_ctx |-> 0, parent |-> 0, fresh |-> TRUE])
  ]
  ][s.ncall + 1
  ]

\* v is 0 or -1
rc_lisp_do_print_car(s, ctx, list, d, id) ==
  [expr \in Any |->
  [val \in Any |->
  [s1 \in Any |->
      IF LISP_IS_EXCEPTION(val.v) THEN R(s1, -1)
      ELSE R([s1 EXCEPT !.out = Append(@, rc_lisp_value_to_string(val.v))], 0)
  ][Logged(val.s, [ev |-> "evalarg", id |-> id, expr |-> expr.v,
                           raised |-> LISP_IS_EXCEPTION(val.v)])
  ]
  ][rc_lisp_eval(expr.s, ctx, expr.v, d)
  ]
  ][rc_lisp_car(s, ctx, list)
  ]

rc_lisp_print_loop(s, ctx, args, d, id) ==
  IF LISP_IS_NIL(args) \/ s.crash THEN R([s EXCEPT !.out = Append(@, "\n")], LISP_NIL)
  ELSE
       [p \in Any |->
       [next \in Any |->
           IF p.v # 0 THEN R(p.s, LISP_EXCEPTION)
           ELSE rc_lisp_print_loop(next.s, ctx, next.v, d, id)
       ][rc_lisp_cdr(p.s, ctx, args)
       ]
       ][rc_lisp_do_print_car(s, ctx, args, d, id)
       ]

rc_lisp_print(s, ctx, args, func, d) ==
  [id \in Any |->
  [s1 \in Any |->
  [r \in Any |->
      IF LISP_IS_EXCEPTION(r.v) THEN r
      ELSE R(Logged(r.s, [ev |-> "body", id |-> id]), r.v)
  ][rc_lisp_print_loop(s1, ctx, args, d, id)
  ]
  ][Logged([s EXCEPT !.ncall = id],
                   [ev |-> "call", id |-> id, func |-> func, caller |-> ctx, args |-> args,
                    new_ctx |-> 0, parent |-> 0, fresh |-> TRUE])
  ]
  ][s.ncall + 1
  ]

rc_lisp_if(s, ctx, args, d) ==
  [cond \in Any |->
  [args1 \in Any |->
  [texpr \in Any |->
  [args2 \in Any |->
  [fexpr \in Any |->
  [cond_var \in Any |->
      IF LISP_IS_EXCEPTION(cond_var.v) THEN R(cond_var.s, LISP_EXCEPTION)
      ELSE IF LISP_IS_NIL(cond_var.v)
        THEN (IF LISP_IS_NIL(fexpr.v) THEN R(cond_var.s, LISP_NIL)
              ELSE rc_lisp_eval(cond_var.s, ctx, fexpr.v, d))
      ELSE rc_lisp_eval(cond_var.s, ctx, texpr.v, d)
  ][rc_lisp_eval(fexpr.s, ctx, cond.v, d)
  ]
  ][IF ~LISP_IS_NIL(args2.v) THEN rc_lisp_car(args2.s, ctx, args2.v)
               ELSE R(args2.s, LISP_NIL)
  ]
  ][rc_lisp_cdr(texpr.s, ctx, args1.v)
  ]
  ][rc_lisp_car(args1.s, ctx, args1.v)
  ]
  ][rc_lisp_cdr(cond.s, ctx, args)
  ]
  ][rc_lisp_car(s, ctx, args)
  ]

rc_lisp_lambda(s, ctx, args) ==
  [params \in Any |->
  [body \in Any |->
      rc_lisp_new_function(body.s, ctx, params.v, body.v, "lisp_function_invoker")
  ][rc_lisp_cdr(params.s, ctx, args)
  ]
  ][rc_lisp_car(s, ctx, args)
  ]

rc_lisp_eval(s, ctx, val, d) ==
  IF s.crash THEN R(s, LISP_EXCEPTION)
  ELSE IF d = 0 THEN R(Crash(s), LISP_EXCEPTION)
  ELSE IF LISP_IS_LIST(val) /\ ~LISP_IS_NIL(val)
    THEN
         [func_expr \in Any |->
         [func \in Any |->
             IF LISP_IS_EXCEPTION(func.v) THEN R(func.s, LISP_EXCEPTION)
             ELSE IF ~lisp_is_class(func.v, LISP_CLASS_FUNCTION)
               THEN R(rc_lisp_throw_internal_error(func.s, ctx, "Need a function").s,
                      LISP_EXCEPTION)
             ELSE
                  [args \in Any |->
                  [invoker \in Any |->
                      CASE invoker = "lisp_function_invoker" ->
                             rc_lisp_function_invoker(args.s, ctx, args.v, func.v, d - 1)
                        [] invoker = "lisp_define" -> rc_lisp_define(args.s, ctx, args.v, d - 1)
                        [] invoker = "lisp_setq" -> rc_lisp_setq(args.s, ctx, args.v, d - 1, 0)
                        [] invoker = "lisp_quote" -> rc_lisp_quote(args.s, ctx, args.v)
                        [] invoker = "lisp_plus" ->
                             rc_lisp_plus(args.s, ctx, args.v, func.v, d - 1)
                        [] invoker = "lisp_print" ->
                             rc_lisp_print(args.s, ctx, args.v, func.v, d - 1)
                        [] invoker = "lisp_if" -> rc_lisp_if(args.s, ctx, args.v, d - 1)
                        [] invoker = "lisp_lambda" -> rc_lisp_lambda(args.s, ctx, args.v)
                  ][fn_invoker(func.v)
                  ]
                  ][rc_lisp_cdr(func.s, ctx, val)
                  ]
         ][rc_lisp_eval(func_expr.s, ctx, func_expr.v, d - 1)
         ]
         ][rc_lisp_car(s, ctx, val)
         ]
  ELSE IF LISP_IS_SYMBOL(val)
    THEN
         [var \in Any |->
             IF var[1] = 0
               THEN rc_lisp_throw_internal_error(s, ctx,
                      "Variable " \o LISP_SYMBOL_STR(val) \o " not found")
             ELSE R(s, s.ctxs[var[1]].vars[var[2]][2])
         ][rc_lisp_context_find_variable(s.ctxs, ctx, val)
         ]
  ELSE R(s, val)

rc_lisp_define_function(s, ctx, name, data, invoker) ==
  [fn \in Any |->
      rc_lisp_set_value_in_context(fn.s, ctx, Symbol(name), fn.v).s
  ][rc_lisp_new_function(s, ctx, Symbol(name), data, invoker)
  ]

\* the functions of the global context, in the order of their definition
rc_GlobalDefinitions ==
  << <<"DEFINE", "lisp_define">>, <<"SET", "lisp_set">>, <<"SETQ", "lisp_setq">>,
     <<"QUOTE", "lisp_quote">>, <<"+", "lisp_plus">>, <<"-", "lisp_minus">>,
     <<"DUMP-CONTEXT-INFO", "lisp_dump_context">>, <<"PRINT", "lisp_print">>,
     <<"IF", "lisp_if">>, <<">", "lisp_binary_op_number">>,
     <<"<", "lisp_binary_op_number">>, <<">=", "lisp_binary_op_number">>,
     <<"<=", "lisp_binary_op_number">>, <<"=", "lisp_binary_op_number">>,
     <<"!=", "lisp_binary_op_number">>, <<"/", "lisp_binary_op_number">>,
     <<"%", "lisp_binary_op_number">>, <<"&", "lisp_binary_op_number">>,
     <<"|", "lisp_binary_op_number">>, <<"^", "lisp_binary_op_number">>,
     <<"LAMBDA", "lisp_lambda">>, <<"NULL?", "lisp_null_p">>, <<"CAR", "lisp_get_car">>,
     <<"CDR", "lisp_get_cdr">>, <<"CONS", "lisp_cons">>, <<"LIST", "lisp_list">>,
     <<"ATOM?", "lisp_atom_p">>, <<"ZERO?", "lisp_zero_p">> >>

RECURSIVE rc_DefineAll(_, _, _)
rc_DefineAll(s, ctx, defs) ==
  IF Len(defs) = 0 THEN s
  ELSE IF Len(defs) = 1
    THEN rc_lisp_define_function(s, ctx, defs[1][1], LISP_NIL, defs[1][2])
  ELSE
       [half \in Any |->
       [s1 \in Any |->
           IF s1.crash THEN s1 ELSE rc_DefineAll(s1, ctx, SubSeq(defs, half + 1, Len(defs)))
       ][rc_DefineAll(s, ctx, SubSeq(defs, 1, half))
       ]
       ][Len(defs) \div 2
       ]

rc_lisp_new_global_context(s) ==
  [ctx \in Any |->
      R(rc_DefineAll(ctx.s, ctx.v, rc_GlobalDefinitions), ctx.v)
  ][rc_lisp_context_new_with_parent(s, 0, "<GLOBAL>")
  ]

rc_GlobalContext == rc_lisp_new_global_context(EmptyRuntime)

(***************************************************************************)
(* The symbol interner of the runtime.  A name is the sequence of the      *)
(* codes of its characters; a symbol object is a record of                 *)
(* interned_sym_array, and a pointer to it is its place in the array.      *)
(***************************************************************************)
LISP_INTERNED_SYM_TABLE_BITS == 11

\* <ctype.h>, "C" locale
toupper(c) == IF c >= 97 /\ c <= 122 THEN c - 32 ELSE c

lisp_toupper(str) == [i \in 1..Len(str) |-> toupper(str[i])]

\* strcasecmp (a, b) == 0
streq(a, b) ==
  LET tolower(c) == IF c >= 65 /\ c <= 90 THEN c + 32 ELSE c
  IN  Len(a) = Len(b) /\ \A i \in 1..Len(a) : tolower(a[i]) = tolower(b[i])

\* lisp_hash_str that hashes the characters as they are written
RECURSIVE lisp_hash_str_as_written(_, _, _, _)
lisp_hash_str_as_written(str, i, val, p_pow) ==
  IF i > Len(str) THEN val
  ELSE lisp_hash_str_as_written(str, i + 1, (val + str[i] * p_pow) % 1000000009,
                                (p_pow * 31) % 1000000009)

\* the loop of lisp_hash_str from character i on.  The arithmetic is that of
\* uint32_t, done on the two halves of 16 bits of a product or sum: mul and
\* add give <<high, low>>, and mod the remainder by m, 2^31 % m being
\* 147483630
RECURSIVE lisp_hash_str(_, _, _, _)
lisp_hash_str(str, i, val, p_pow) ==
  LET m == 1000000009
      mul(a, b) ==
        <<(a * (b \div 65536) + (a * (b % 65536)) \div 65536) % 65536,
          (a * (b % 65536)) % 65536>>
      add(x, b) ==
        <<(x[1] + (b \div 65536) + (x[2] + (b % 65536)) \div 65536) % 65536,
          (x[2] + (b % 65536)) % 65536>>
      mod(x) ==
        IF x[1] >= 32768 THEN ((((x[1] - 32768) * 65536 + x[2]) % m) + 147483630) % m
        ELSE (x[1] * 65536 + x[2]) % m
  IN  IF i > Len(str) THEN val
      ELSE lisp_hash_str(str, i + 1, mod(add(mul(toupper(str[i]), p_pow), val)),
                         mod(mul(31, p_pow)))

\* hashtable.h: the nodes of the bucket of key, the latest added first; a
\* table of 2^bits buckets
hash_for_each_possible(table, key) ==
  LET hash_min(val) == val % (2 ^ LISP_INTERNED_SYM_TABLE_BITS)
  IN  SelectSeq(table, LAMBDA node : hash_min(node.key) = hash_min(key))

LISP_MAKE_PTR(sym) == <<LISP_CLASS_SYMBOL, sym>>

lisp_interned_symbol(rt, name) ==
  [key \in Any |->
  [found \in Any |->
      IF Len(found) > 0 THEN [rt |-> rt, v |-> LISP_MAKE_PTR(found[1].sym)]
      ELSE [rt |-> [array |-> Append(rt.array,
                                     [name |-> lisp_toupper(name), length |-> Len(name),
                                      index |-> Len(rt.array), is_static |-> 0]),
                    table |-> hash_add(rt.table, [key |-> key, sym |-> Len(rt.array) + 1])],
            v |-> LISP_MAKE_PTR(Len(rt.array) + 1)]
  ][SelectSeq(hash_for_each_possible(rt.table, key),
              LAMBDA node : streq(rt.array[node.sym].name, name))
  ]
  ][lisp_hash_str(name, 1, 0, 1)
  ]

\* symbols.inc: the names of the static symbols
lisp_default_symbol_table == << <<81, 85, 79, 84, 69>> >>

RECURSIVE lisp_install_default_symbols(_, _)
lisp_install_default_symbols(rt, i) ==
  IF i > Len(lisp_default_symbol_table) THEN rt
  ELSE lisp_install_default_symbols(
         [array |-> Append(rt.array,
                           [name |-> lisp_default_symbol_table[i],
                            length |-> Len(lisp_default_symbol_table[i]),
                            index |-> i - 1, is_static |-> 1]),
          table |-> hash_add(rt.table,
                             [key |-> lisp_hash_str(lisp_default_symbol_table[i], 1, 0, 1),
                              sym |-> Len(rt.array) + 1])],
         i + 1)

\* the interner that lisp_runtime_new leaves
InternedSymbols == lisp_install_default_symbols([array |-> <<>>, table |-> <<>>], 1)

lisp_eqv(a, b) ==
  IF (IF LISP_IS_PTR(a) THEN "ptr" ELSE a[1]) # (IF LISP_IS_PTR(b) THEN "ptr" ELSE b[1]) THEN 0
  ELSE IF LISP_IS_BOOL(a) THEN (IF (a[2] # 0 /\ b[2] # 0) \/ (a[2] = 0 /\ b[2] = 0) THEN 1 ELSE 0)
  ELSE IF LISP_IS_INT(a) THEN (IF a[2] = b[2] THEN 1 ELSE 0)
  ELSE IF a = b THEN 1 ELSE 0

(***************************************************************************)
(* The reader.  A character is its code, a token the sequence of its       *)
(* characters, and the stream a record of the characters of the file, the  *)
(* place of the next one and the end-of-file indicator that feof tests.    *)
(***************************************************************************)
EOF == -1

\* the token of a reader that has none
NULL == <<>>

\* the reader of lisp_reader_new on a stream of the characters data
lisp_reader_new(data) ==
  [filep |-> [data |-> data, pos |-> 1, eof |-> FALSE], state |-> "LISP_RS_NEXT",
   token |-> NULL]

\* getc sets the end-of-file indicator when there is no character left
lisp_reader_getc(rd) ==
  IF rd.filep.pos > Len(rd.filep.data)
    THEN [rd |-> [rd EXCEPT !.filep.eof = TRUE], ch |-> EOF]
  ELSE [rd |-> [rd EXCEPT !.filep.pos = @ + 1], ch |-> rd.filep.data[rd.filep.pos]]

\* ungetc clears the end-of-file indicator
lisp_reader_ungetc(rd, ch) == [rd EXCEPT !.filep.pos = @ - 1, !.filep.eof = FALSE]

\* the value returned, a parse error code that no caller reads, is left out
lisp_do_next_token(rd) ==
  LET isspace(ch) == ch \in {32, 9, 10, 11, 12, 13}
      isdigit(ch) == ch \in 48..57
      isalnum(ch) == ch \in 48..57 \/ ch \in 65..90 \/ ch \in 97..122
      \* strchr ("()[]{};'`\"|", ch)
      closes(ch) == ch \in {40, 41, 91, 93, 123, 125, 59, 39, 96, 34, 124}
      \* strchr ("+-*/%^><=!&?", ch)
      operator(ch) == ch \in {43, 45, 42, 47, 37, 94, 62, 60, 61, 33, 38, 63}
      RECURSIVE comment(_)
      comment(r) ==
        [g \in Any |->
            IF g.ch = EOF \/ g.ch \in {10, 13, 12} THEN g ELSE comment(g.rd)
        ][lisp_reader_getc(r)
        ]
      RECURSIVE skip(_)
      skip(r) ==
        [g \in Any |->
            IF g.ch = EOF THEN g
            ELSE IF isspace(g.ch) THEN skip(g.rd)
            ELSE IF g.ch = 59 THEN skip(comment(g.rd).rd)
            ELSE g
        ][lisp_reader_getc(r)
        ]
      RECURSIVE number(_, _)
      number(r, buf) ==
        [g \in Any |->
            IF g.ch = EOF THEN [g.rd EXCEPT !.token = buf]
            ELSE IF isdigit(g.ch) THEN number(g.rd, Append(buf, g.ch))
            ELSE IF isspace(g.ch) THEN [g.rd EXCEPT !.token = buf]
            ELSE IF closes(g.ch) THEN [lisp_reader_ungetc(g.rd, g.ch) EXCEPT !.token = buf]
            ELSE [g.rd EXCEPT !.token = NULL]
        ][lisp_reader_getc(r)
        ]
      RECURSIVE symbol(_, _)
      symbol(r, buf) ==
        [g \in Any |->
            IF g.ch = EOF THEN [g.rd EXCEPT !.token = buf]
            ELSE IF isalnum(g.ch) \/ operator(g.ch) THEN symbol(g.rd, Append(buf, g.ch))
            ELSE IF isspace(g.ch) THEN [g.rd EXCEPT !.token = buf]
            ELSE IF closes(g.ch) THEN [lisp_reader_ungetc(g.rd, g.ch) EXCEPT !.token = buf]
            ELSE [g.rd EXCEPT !.token = NULL]
        ][lisp_reader_getc(r)
        ]
      RECURSIVE string(_, _)
      string(r, buf) ==
        [g \in Any |->
            IF g.ch = EOF THEN [g.rd EXCEPT !.token = NULL]
            ELSE IF g.ch = 92
              THEN
                   [e \in Any |->
                       CASE e.ch = EOF -> [e.rd EXCEPT !.token = NULL]
                         [] e.ch = 116 -> string(e.rd, Append(buf, 9))
                         [] e.ch = 102 -> string(e.rd, Append(buf, 12))
                         [] e.ch = 92 -> string(e.rd, Append(buf, 92))
                         [] e.ch = 110 -> string(e.rd, Append(buf, 10))
                         [] e.ch = 114 -> string(e.rd, Append(buf, 13))
                         [] e.ch = 34 -> string(e.rd, Append(buf, 34))
                         [] OTHER -> [e.rd EXCEPT !.token = NULL]
                   ][lisp_reader_getc(g.rd)
                   ]
            ELSE IF g.ch = 34 THEN [g.rd EXCEPT !.token = Append(buf, 34)]
            ELSE string(g.rd, Append(buf, g.ch))
        ][lisp_reader_getc(r)
        ]
  IN  [g \in Any |->
          CASE g.ch = EOF -> [g.rd EXCEPT !.token = NULL]
            [] g.ch \in {40, 41, 91, 93, 39, 46} -> [g.rd EXCEPT !.token = <<g.ch>>]
            [] isdigit(g.ch) -> number(g.rd, <<g.ch>>)
            [] g.ch \in 65..90 \/ g.ch \in 97..122 \/ operator(g.ch) \/ g.ch = 35 ->
                 symbol(g.rd, <<g.ch>>)
            [] g.ch = 34 -> string(g.rd, <<34>>)
            [] OTHER -> [g.rd EXCEPT !.token = NULL]
      ][skip(rd)
      ]

lisp_next_token(rd) ==
  IF rd.state = "LISP_RS_PEEK" THEN [rd EXCEPT !.state = "LISP_RS_NEXT"]
  ELSE lisp_do_next_token(rd)

\* lisp_peek_token that leaves the state of the reader at LISP_RS_NEXT
lisp_peek_token_unmarked(rd) ==
  IF rd.state = "LISP_RS_NEXT" THEN lisp_do_next_token(rd)
  ELSE rd

lisp_peek_token(rd) ==
  IF rd.state = "LISP_RS_NEXT" THEN [lisp_do_next_token(rd) EXCEPT !.state = "LISP_RS_PEEK"]
  ELSE rd

\* the forms are read by a reader that carries, besides the stream and the
\* token, what it reaches through reader->ctx: the runtime s and its
\* interner rt
lisp_throw_parse_error(rd, msg) ==
  [rd |-> [rd EXCEPT !.s = lisp_throw_internal_error(rd.s, TopLevel, msg).s],
   v |-> LISP_EXCEPTION]

\* strtol (token, &endptr, 0) of a token of digits: a token that begins with
\* 0 is read in base 8, up to its first digit above 7.  The tokens read here
\* are short enough for the value to fit an int32_t
lisp_read_atom(rd) ==
  LET isdigit(ch) == ch \in 48..57
      RECURSIVE strtol(_, _, _, _)
      strtol(nptr, i, base, n) ==
        IF i > Len(nptr) \/ nptr[i] - 48 >= base THEN [n |-> n, endptr |-> i]
        ELSE strtol(nptr, i + 1, base, n * base + (nptr[i] - 48))
  IN  [r \in Any |->
      [token \in Any |->
          IF token = NULL THEN [rd |-> [r EXCEPT !.s = Crash(@)], v |-> LISP_EXCEPTION]
          ELSE IF isdigit(token[1])
            THEN IF \E i \in 1..Len(token) : token[i] = 46
                   THEN [rd |-> [r EXCEPT !.s = Crash(@)], v |-> LISP_EXCEPTION]
                 ELSE
                      [n \in Any |->
                          IF n.endptr # Len(token) + 1
                            THEN lisp_throw_parse_error(r, <<"invalid number literal: %s", token>>)
                          ELSE [rd |-> r, v |-> LISP_INT32(n.n)]
                      ][IF token[1] = 48 /\ Len(token) > 1 THEN strtol(token, 2, 8, 0)
                        ELSE strtol(token, 1, 10, 0)
                      ]
          ELSE IF token[1] = 34
            THEN [rd |-> r, v |-> String(SubSeq(token, 2, Len(token) - 1))]
          ELSE IF token[1] = 35
            THEN IF Len(token) # 2 \/ (toupper(token[2]) # 84 /\ toupper(token[2]) # 70)
                   THEN lisp_throw_parse_error(r, <<"Invalid boolean: %s", token>>)
                 ELSE IF toupper(token[2]) = 84 THEN [rd |-> r, v |-> LISP_TRUE]
                 ELSE [rd |-> r, v |-> LISP_FALSE]
          ELSE
               [sym \in Any |->
                   [rd |-> [r EXCEPT !.rt = sym.rt], v |-> sym.v]
               ][lisp_interned_symbol(r.rt, token)
               ]
      ][r.token
      ]
      ][lisp_next_token(rd)
      ]

RECURSIVE lisp_read_form(_)
RECURSIVE lisp_read_list_loop(_, _, _)

\* the loop of lisp_read_list: cars are the forms read so far.  After a dot,
\* the token compared with the closing one may be NULL
lisp_read_list_loop(rd, closing, cars) ==
  [r \in Any |->
      IF r.token = NULL
        THEN [rd |-> lisp_throw_parse_error(r, "Unexpected eof when parsing list").rd,
              v |-> LISP_EXCEPTION]
      ELSE IF streq(r.token, closing)
        THEN [rd |-> lisp_next_token(r), v |-> ListWithTerm(cars, LISP_NIL)]
      ELSE IF streq(r.token, <<46>>)
        THEN
             [tail \in Any |->
                 IF LISP_IS_EXCEPTION(tail.v) THEN [rd |-> tail.rd, v |-> LISP_EXCEPTION]
                 ELSE
                      [last_ \in Any |->
                          IF last_.token = NULL
                            THEN [rd |-> [last_ EXCEPT !.s = Crash(@)], v |-> LISP_EXCEPTION]
                          ELSE IF ~streq(last_.token, closing)
                            THEN [rd |-> lisp_throw_parse_error(
                                           last_, <<"expected '%s' but got '%s'", closing,
                                                    last_.token>>).rd,
                                  v |-> LISP_EXCEPTION]
                          ELSE [rd |-> last_, v |-> ListWithTerm(cars, tail.v)]
                      ][lisp_next_token(tail.rd)
                      ]
             ][lisp_read_form(lisp_next_token(r))
             ]
      ELSE
           [form \in Any |->
               IF LISP_IS_EXCEPTION(form.v) THEN [rd |-> form.rd, v |-> LISP_EXCEPTION]
               ELSE lisp_read_list_loop(form.rd, closing, Append(cars, form.v))
           ][lisp_read_form(r)
           ]
  ][lisp_peek_token(rd)
  ]

lisp_read_list(rd) ==
  [r \in Any |->
      lisp_read_list_loop(r, IF streq(r.token, <<40>>) THEN <<41>> ELSE <<93>>, <<>>)
  ][lisp_next_token(rd)
  ]

lisp_read_form(rd) ==
  [r \in Any |->
      IF r.token = NULL THEN lisp_throw_parse_error(r, "EOF")
      ELSE IF streq(r.token, <<40>>) \/ streq(r.token, <<91>>) THEN lisp_read_list(r)
      ELSE IF streq(r.token, <<41>>) \/ streq(r.token, <<93>>)
        THEN lisp_throw_parse_error(r, <<"Unexpected '%s'", r.token>>)
      ELSE IF streq(r.token, <<39>>)
        THEN
             [quoted \in Any |->
                 IF LISP_IS_EXCEPTION(quoted.v) THEN [rd |-> quoted.rd, v |-> LISP_EXCEPTION]
                 ELSE
                      [sym \in Any |->
                          [rd |-> [quoted.rd EXCEPT !.rt = sym.rt],
                           v |-> Pair(sym.v, Pair(quoted.v, LISP_NIL))]
                      ][lisp_interned_symbol(quoted.rd.rt, <<81, 85, 79, 84, 69>>)
                      ]
             ][lisp_read_form(lisp_next_token(r))
             ]
      ELSE lisp_read_atom(r)
  ][lisp_peek_token(rd)
  ]

RECURSIVE lisp_value_format(_, _)
RECURSIVE lisp_cons_format(_, _, _)

\* what the loop of lisp_cons_format appends after the opening parenthesis
lisp_cons_format(rt, cons, is_first) ==
  (IF is_first = 0 THEN <<32>> ELSE <<>>) \o lisp_value_format(rt, cons[2])
    \o (IF LISP_IS_NIL(cons[3]) THEN <<41>>
        ELSE IF LISP_IS_LIST(cons[3]) THEN lisp_cons_format(rt, cons[3], 0)
        ELSE <<32, 46, 32>> \o lisp_value_format(rt, cons[3]) \o <<41>>)

\* the characters appended to the buffer for a value that is Nil, an
\* integer, a boolean, a pair, a symbol of the interner rt or a string
lisp_value_format(rt, val) ==
  LET RECURSIVE PRIi32(_)
      PRIi32(i) ==
        IF i < 0 THEN <<45>> \o PRIi32(0 - i)
        ELSE IF i < 10 THEN <<48 + i>>
        ELSE PRIi32(i \div 10) \o <<48 + (i % 10)>>
  IN  IF LISP_IS_NIL(val) THEN <<40, 41>>
      ELSE IF LISP_IS_PTR(val)
        THEN CASE val[1] = LISP_CLASS_PAIR -> <<40>> \o lisp_cons_format(rt, val, 1)
               [] val[1] = LISP_CLASS_SYMBOL -> rt.array[val[2]].name
               [] val[1] = LISP_CLASS_STRING -> <<34>> \o val[2] \o <<34>>
      ELSE IF LISP_IS_INT(val) THEN PRIi32(val[2])
      ELSE IF val[2] # 0 THEN <<35, 84>>
      ELSE <<35, 70>>

(***************************************************************************)
(* The driver: the read-eval-print loop of main.c evaluates one form after *)
(* the other in the top-level context and prints the exception of a call   *)
(* that returned Exception.                                                *)
(***************************************************************************)
X == Symbol("X")
Y == Symbol("Y")
F == Symbol("F")

R_ == Symbol("R")
S_SET == Symbol("SET!")
S_DEFINE == Symbol("DEFINE")
S_LAMBDA == Symbol("LAMBDA")
S_BEGIN == Symbol("BEGIN")
S_LET == Symbol("LET")
G == Symbol("G")
A == Symbol("A")
B == Symbol("B")

Forms ==
  << List(<<S_DEFINE, X, LISP_INT32(1)>>),
     List(<<S_DEFINE, X, LISP_INT32(2)>>),
     List(<<S_SET, X, LISP_INT32(5)>>),
     List(<<S_SET, X, Y>>),
     X,
     List(<<S_LET, List(<<List(<<F, List(<<S_LAMBDA, LISP_NIL, X>>)>>)>>),
            List(<<List(<<S_LAMBDA, List(<<X>>), List(<<F>>)>>), LISP_INT32(7)>>)>>),
     List(<<List(<<S_LAMBDA, LISP_NIL, List(<<S_DEFINE, X, LISP_INT32(9)>>),
                   List(<<S_DEFINE, X, LISP_INT32(8)>>), X>>)>>),
     List(<<Symbol("+"), List(<<S_BEGIN, List(<<S_SET, X, LISP_INT32(3)>>), LISP_INT32(1)>>),
            List(<<S_BEGIN, List(<<S_SET, X, LISP_INT32(4)>>), LISP_INT32(2)>>)>>),
     List(<<List(<<S_LAMBDA, List(<<A, B>>), X>>),
            List(<<S_BEGIN, List(<<S_SET, X, LISP_INT32(3)>>), LISP_INT32(1)>>),
            List(<<S_BEGIN, List(<<S_SET, X, LISP_INT32(4)>>), LISP_INT32(2)>>)>>),
     List(<<S_LET, List(<<List(<<Y, LISP_INT32(1)>>)>>), List(<<S_SET, X, Y>>),
            List(<<S_DEFINE, X, LISP_INT32(7)>>)>>),
     List(<<List(<<S_LAMBDA, List(<<X>>), X>>), LISP_INT32(1),
            List(<<S_SET, X, LISP_INT32(6)>>)>>),
     List(<<Symbol("VECTOR"), List(<<List(<<S_LAMBDA, R_, R_>>), LISP_INT32(1), Y>>)>>),
     List(<<List(<<S_LAMBDA, R_, R_>>)>>),
     List(<<S_LAMBDA>>) >>

\* what an uninitialised local variable may hold
Uninit == <<LISP_NIL, LISP_EXCEPTION, LISP_INT32(0)>>

Pending == last.op = "eval" /\ LISP_IS_EXCEPTION(last.val)

\* the state after lisp_runtime_new, lisp_new_global_context and
\* lisp_reader_new on a stream that holds one of the texts
InitOn(texts) ==
  /\ ctxs = GlobalContext.s.ctxs
  /\ vecs = <<>>
  /\ exception_list = <<>>
  /\ out = <<>>
  /\ log = <<>>
  /\ last = [op |-> "none", form |-> 0, val |-> LISP_NIL, before |-> <<>>]
  /\ crashed = FALSE
  /\ steps = 0
  /\ interned = InternedSymbols
  /\ reader \in {lisp_reader_new(text) : text \in texts}
  /\ object_list = <<>>

Init == InitOn({<<>>})

\* the runtime lisp_eval starts from, value being what an uninitialised
\* local variable holds during the call
Runtime(value) ==
  [ctxs |-> ctxs, vecs |-> vecs, exception_list |-> exception_list, out |-> <<>>,
   log |-> <<>>, crash |-> FALSE, uninit |-> value, used_uninit |-> FALSE, ncall |-> 0]

\* one turn of the loop on the i-th form of forms; when the process dies,
\* last tells on which form
EvalForm(forms, i) ==
  /\ ~crashed
  /\ ~Pending
  /\ steps < MaxSteps
  /\ UNCHANGED <<interned, reader, object_list>>
  /\ \E first \in {lisp_eval(Runtime(Uninit[1]), TopLevel, forms[i], MaxDepth)} :
       \E u \in 1..Len(Uninit) :
         \E r \in {IF u = 1 THEN first
                   ELSE IF first.s.used_uninit
                     THEN lisp_eval(Runtime(Uninit[u]), TopLevel, forms[i], MaxDepth)
                   ELSE first} :
               /\ u = 1 \/ first.s.used_uninit
               /\ steps' = steps + 1
               /\ IF r.s.crash
                    THEN /\ crashed' = TRUE
                         /\ last' = [op |-> "crash", form |-> i, val |-> LISP_EXCEPTION,
                                     before |-> exception_list]
                         /\ UNCHANGED <<ctxs, vecs, exception_list, out, log>>
                  ELSE /\ crashed' = FALSE
                       /\ ctxs' = r.s.ctxs
                       /\ vecs' = r.s.vecs
                       /\ exception_list' = r.s.exception_list
                       /\ out' = r.s.out
                       /\ log' = r.s.log
                       /\ last' = [op |-> "eval", form |-> i, val |-> r.v,
                                   before |-> exception_list]

\* lisp_print_exception: abort () when lisp_get_exception returns Exception
PrintException ==
  /\ ~crashed
  /\ Pending
  /\ UNCHANGED <<interned, reader, object_list>>
  /\ \E error \in {lisp_get_exception(Runtime(LISP_NIL), TopLevel)} :
       IF LISP_IS_EXCEPTION(error.v)
         THEN /\ crashed' = TRUE
              /\ UNCHANGED <<ctxs, vecs, exception_list, out, log, last, steps>>
       ELSE /\ exception_list' = error.s.exception_list
            /\ out' = Append(error.s.out, <<"print", error.v>>)
            /\ log' = error.s.log
            /\ last' = [op |-> "print", form |-> 0, val |-> error.v,
                        before |-> exception_list]
            /\ UNCHANGED <<ctxs, vecs, crashed, steps>>

\* forms on let, let* and letrec (2 to 5) and on the arguments of a call
MoreForms ==
  << List(<<S_DEFINE, X, LISP_INT32(1)>>),
     List(<<S_LET, List(<<List(<<X, LISP_INT32(2)>>), List(<<Y, X>>)>>), Y>>),
     List(<<Symbol("LET*"), List(<<List(<<X, LISP_INT32(2)>>), List(<<Y, X>>)>>), Y>>),
     List(<<Symbol("LETREC"),
            List(<<List(<<Symbol("EVEN?"),
                          List(<<S_LAMBDA, List(<<Symbol("N")>>),
                                 List(<<Symbol("IF"),
                                        List(<<Symbol("="), Symbol("N"), LISP_INT32(0)>>),
                                        LISP_TRUE,
                                        List(<<Symbol("ODD?"),
                                               List(<<Symbol("-"), Symbol("N"),
                                                      LISP_INT32(1)>>)>>)>>)>>)>>),
                   List(<<Symbol("ODD?"),
                          List(<<S_LAMBDA, List(<<Symbol("N")>>),
                                 List(<<Symbol("IF"),
                                        List(<<Symbol("="), Symbol("N"), LISP_INT32(0)>>),
                                        LISP_FALSE,
                                        List(<<Symbol("EVEN?"),
                                               List(<<Symbol("-"), Symbol("N"),
                                                      LISP_INT32(1)>>)>>)>>)>>)>>)>>),
            List(<<Symbol("DISPLAY"), List(<<Symbol("EVEN?"), LISP_INT32(10)>>)>>)>>),
     List(<<Symbol("LETREC"),
            List(<<List(<<Symbol("EVEN?"),
                          List(<<S_LAMBDA, List(<<Symbol("N")>>),
                                 List(<<Symbol("IF"),
                                        List(<<Symbol("<"), Symbol("N"), LISP_INT32(1)>>),
                                        LISP_TRUE,
                                        List(<<Symbol("ODD?"),
                                               List(<<Symbol("-"), Symbol("N"),
                                                      LISP_INT32(1)>>)>>)>>)>>)>>),
                   List(<<Symbol("ODD?"),
                          List(<<S_LAMBDA, List(<<Symbol("N")>>),
                                 List(<<Symbol("IF"),
                                        List(<<Symbol("<"), Symbol("N"), LISP_INT32(1)>>),
                                        LISP_FALSE,
                                        List(<<Symbol("EVEN?"),
                                               List(<<Symbol("-"), Symbol("N"),
                                                      LISP_INT32(1)>>)>>)>>)>>)>>)>>),
            List(<<Symbol("EVEN?"), LISP_INT32(2)>>)>>),
     List(<<List(<<S_LAMBDA, List(<<A, B>>), A>>), LISP_INT32(1)>>),
     List(<<List(<<S_LAMBDA, List(<<A>>), A>>), LISP_INT32(1), LISP_INT32(2)>>),
     List(<<List(<<S_LAMBDA, List(<<A, B>>), B>>), LISP_INT32(1), LISP_INT32(2)>>),
     List(<<List(<<S_LAMBDA, Pair(A, R_), R_>>), LISP_INT32(1)>>),
     List(<<List(<<S_LAMBDA, Pair(A, R_), R_>>), LISP_INT32(1), LISP_INT32(2),
            LISP_INT32(3)>>),
     List(<<List(<<S_LAMBDA, R_, R_>>)>>),
     List(<<Symbol("VECTOR-LENGTH"),
            List(<<Symbol("VECTOR"), LISP_INT32(1), LISP_INT32(2)>>), LISP_INT32(3)>>),
     List(<<Symbol("VECTOR"), LISP_INT32(1), LISP_INT32(2), LISP_INT32(3)>>),
     List(<<Symbol("VECTOR-LENGTH"),
            List(<<Symbol("VECTOR"), LISP_INT32(1), LISP_INT32(2)>>)>>) >>

SpecMore ==
  Init /\ [][(\E i \in 1..Len(MoreForms) : EvalForm(MoreForms, i))
             \/ PrintException]_vars

Spec ==
  Init /\ [][(\E i \in 1..Len(Forms) : EvalForm(Forms, i))
             \/ PrintException]_vars

(***************************************************************************)
(* The driver of the reference-counted variant evaluates in the global     *)
(* context.                                                                *)
(***************************************************************************)
rc_Forms ==
  << List(<<Symbol("DEFINE"), X, LISP_INT32(1)>>),
     List(<<Symbol("DEFINE"), List(<<F>>), X>>),
     List(<<Symbol("DEFINE"), List(<<G, X>>), List(<<F>>)>>),
     List(<<G, LISP_INT32(2)>>),
     List(<<F>>),
     List(<<List(<<Symbol("LAMBDA"), List(<<A, B>>), A>>),
            List(<<Symbol("PRINT"), LISP_INT32(1)>>),
            List(<<Symbol("PRINT"), LISP_INT32(2)>>)>>),
     List(<<Symbol("+"),
            List(<<Symbol("IF"), List(<<Symbol("PRINT"), LISP_INT32(1)>>),
                   LISP_INT32(0), LISP_INT32(1)>>),
            List(<<Symbol("IF"), List(<<Symbol("PRINT"), LISP_INT32(2)>>),
                   LISP_INT32(0), LISP_INT32(2)>>)>>),
     List(<<Symbol("SETQ"), X, LISP_INT32(5)>>),
     X >>

rc_Init ==
  /\ ctxs = rc_GlobalContext.s.ctxs
  /\ vecs = <<>>
  /\ exception_list = <<>>
  /\ out = <<>>
  /\ log = <<>>
  /\ last = [op |-> "none", form |-> 0, val |-> LISP_NIL, before |-> <<>>]
  /\ crashed = FALSE
  /\ steps = 0
  /\ interned = InternedSymbols
  /\ reader = lisp_reader_new(<<>>)
  /\ object_list = <<>>

rc_Eval(i) ==
  /\ ~crashed
  /\ ~Pending
  /\ steps < MaxSteps
  /\ UNCHANGED <<interned, reader, object_list>>
  /\ \E r \in {rc_lisp_eval(Runtime(LISP_NIL), rc_GlobalContext.v, rc_Forms[i], MaxDepth)} :
         /\ steps' = steps + 1
         /\ IF r.s.crash
              THEN /\ crashed' = TRUE
                   /\ UNCHANGED <<ctxs, vecs, exception_list, out, log, last>>
            ELSE /\ crashed' = FALSE
                 /\ ctxs' = r.s.ctxs
                 /\ vecs' = r.s.vecs
                 /\ exception_list' = r.s.exception_list
                 /\ out' = r.s.out
                 /\ log' = r.s.log
                 /\ last' = [op |-> "eval", form |-> i, val |-> r.v,
                             before |-> exception_list]

\* lisp_print_exception: abort () when the list is empty
rc_PrintException ==
  /\ ~crashed
  /\ Pending
  /\ UNCHANGED <<interned, reader, object_list>>
  /\ IF Len(exception_list) = 0
       THEN /\ crashed' = TRUE
            /\ UNCHANGED <<ctxs, vecs, exception_list, out, log, last, steps>>
     ELSE /\ exception_list' = Tail(exception_list)
          /\ out' = <<ctxs[rc_GlobalContext.v].name \o ": ", Head(exception_list)[2]>>
          /\ log' = <<>>
          /\ last' = [op |-> "print", form |-> 0, val |-> Head(exception_list),
                      before |-> exception_list]
          /\ UNCHANGED <<ctxs, vecs, crashed, steps>>

SpecRc ==
  rc_Init /\ [][(\E i \in 1..Len(rc_Forms) : rc_Eval(i))
                \/ rc_PrintException]_vars

(***************************************************************************)
(* The driver of the interner: the reader interns the tokens it reads, one *)
(* after the other.                                                        *)
(***************************************************************************)
\* a, A, b, ba, BA, Ba, #B, #b, quote; BA and #B have the same hash
\* forms on vectors: indexes in and out of range (2 to 8) and operations on
\* values that are not vectors or pairs (9 to 14)
VectorForms ==
  << List(<<S_DEFINE, Symbol("V"), List(<<Symbol("VECTOR"), LISP_INT32(1), LISP_INT32(2)>>)>>),
     List(<<Symbol("VECTOR-REF"), Symbol("V"), LISP_INT32(2)>>),
     List(<<Symbol("VECTOR-REF"), Symbol("V"), List(<<Symbol("-"), LISP_INT32(1)>>)>>),
     List(<<Symbol("VECTOR-SET!"), Symbol("V"), LISP_INT32(2), LISP_INT32(9)>>),
     List(<<Symbol("VECTOR-SET!"), Symbol("V"), List(<<Symbol("-"), LISP_INT32(1)>>),
            LISP_INT32(9)>>),
     List(<<Symbol("VECTOR-SET!"), Symbol("V"), LISP_INT32(0), LISP_INT32(9)>>),
     List(<<Symbol("VECTOR-REF"), Symbol("V"), LISP_INT32(0)>>),
     List(<<Symbol("VECTOR-SET!"), Symbol("V"), LISP_INT32(1), LISP_INT32(8)>>),
     List(<<Symbol("VECTOR-LENGTH"), LISP_INT32(1)>>),
     List(<<Symbol("VECTOR-LENGTH"), LISP_NIL>>),
     List(<<Symbol("VECTOR-REF"), LISP_NIL, LISP_INT32(0)>>),
     List(<<Symbol("VECTOR-COPY"), LISP_NIL>>),
     List(<<Symbol("VECTOR-CAPACITY")>>),
     List(<<S_LET, LISP_INT32(1), X>>) >>

SpecVector ==
  Init /\ [][(\E i \in 1..Len(VectorForms) : EvalForm(VectorForms, i))
             \/ PrintException]_vars

\* forms on if (1 to 6 and 14) and on sequences of forms: begin, a procedure
\* body, a let body and a cond clause (7 to 12)
ControlForms ==
  << List(<<Symbol("IF"), LISP_TRUE, List(<<Symbol("DISPLAY"), LISP_INT32(1)>>),
            List(<<Symbol("DISPLAY"), LISP_INT32(2)>>)>>),
     List(<<Symbol("IF"), LISP_FALSE, List(<<Symbol("DISPLAY"), LISP_INT32(1)>>),
            List(<<Symbol("DISPLAY"), LISP_INT32(2)>>)>>),
     List(<<Symbol("IF"),
            List(<<S_BEGIN, List(<<Symbol("DISPLAY"), LISP_INT32(0)>>), LISP_FALSE>>),
            List(<<Symbol("DISPLAY"), LISP_INT32(1)>>)>>),
     List(<<Symbol("IF"),
            List(<<S_BEGIN, List(<<Symbol("DISPLAY"), LISP_INT32(0)>>), LISP_TRUE>>),
            LISP_INT32(5), LISP_INT32(6)>>),
     List(<<Symbol("IF"), LISP_FALSE, LISP_INT32(5), LISP_INT32(6)>>),
     List(<<Symbol("IF"), Y, List(<<Symbol("DISPLAY"), LISP_INT32(1)>>),
            List(<<Symbol("DISPLAY"), LISP_INT32(2)>>)>>),
     List(<<S_BEGIN, List(<<Symbol("DISPLAY"), LISP_INT32(1)>>), Y,
            List(<<Symbol("DISPLAY"), LISP_INT32(2)>>)>>),
     List(<<List(<<S_LAMBDA, LISP_NIL, List(<<Symbol("DISPLAY"), LISP_INT32(1)>>), Y,
                   List(<<Symbol("DISPLAY"), LISP_INT32(2)>>)>>)>>),
     List(<<S_LET, LISP_NIL, List(<<Symbol("DISPLAY"), LISP_INT32(1)>>), Y,
            List(<<Symbol("DISPLAY"), LISP_INT32(2)>>)>>),
     List(<<Symbol("COND"),
            List(<<LISP_TRUE, List(<<Symbol("DISPLAY"), LISP_INT32(1)>>), Y,
                   List(<<Symbol("DISPLAY"), LISP_INT32(2)>>)>>)>>),
     List(<<S_BEGIN>>),
     List(<<S_BEGIN, List(<<Symbol("DISPLAY"), LISP_INT32(1)>>), LISP_INT32(7)>>),
     List(<<S_DEFINE, Y, LISP_TRUE>>),
     List(<<Symbol("IF"), LISP_INT32(1), List(<<Symbol("DISPLAY"), LISP_INT32(1)>>),
            List(<<Symbol("DISPLAY"), LISP_INT32(2)>>)>>) >>

SpecControl ==
  Init /\ [][(\E i \in 1..Len(ControlForms) : EvalForm(ControlForms, i))
             \/ PrintException]_vars

\* the reader as the functions of the reader see it, with the runtime and
\* the interner it reaches through reader->ctx
Reader ==
  [s |-> Runtime(LISP_NIL), rt |-> interned, filep |-> reader.filep, state |-> reader.state,
   token |-> reader.token]

\* texts of several tokens:
\*   '(a 12)'
\*   'a b'
\*   " 'x ; c\n(1 . 2)"
\*   '"a b" #t'
\*   '[+ -5]'
\*   ''
TokenTexts ==
  { <<40, 97, 32, 49, 50, 41>>,
    <<97, 32, 98>>,
    <<32, 39, 120, 32, 59, 32, 99, 10, 40, 49, 32, 46, 32, 50, 41>>,
    <<34, 97, 32, 98, 34, 32, 35, 116>>,
    <<91, 43, 32, 45, 53, 93>>,
    <<>> }

\* a call of lisp_peek_token; last keeps the reader before the call and
\* the call before this one
PeekToken ==
  /\ UNCHANGED object_list
  /\ steps < MaxTokens
  /\ \E rd \in {lisp_peek_token(Reader)} :
       /\ reader' = [filep |-> rd.filep, state |-> rd.state, token |-> rd.token]
       /\ last' = [op |-> "peek", form |-> 0, val |-> rd.token, before |-> reader,
                   prev |-> last.op]
  /\ steps' = steps + 1
  /\ UNCHANGED <<ctxs, vecs, exception_list, out, log, crashed, interned>>

\* a call of lisp_next_token; log keeps the tokens the calls returned
NextToken ==
  /\ UNCHANGED object_list
  /\ steps < MaxTokens
  /\ \E rd \in {lisp_next_token(Reader)} :
       /\ reader' = [filep |-> rd.filep, state |-> rd.state, token |-> rd.token]
       /\ last' = [op |-> "next", form |-> 0, val |-> rd.token, before |-> reader,
                   prev |-> last.op]
       /\ log' = IF rd.token = NULL THEN log ELSE Append(log, rd.token)
  /\ steps' = steps + 1
  /\ UNCHANGED <<ctxs, vecs, exception_list, out, crashed, interned>>

SpecTokens == InitOn(TokenTexts) /\ [][PeekToken \/ NextToken]_vars

\* values without procedure, syntax, vector or exception: Nil, booleans,
\* integers, the symbol QUOTE of the interner, strings and pairs of them
Values ==
  LET quote == LISP_MAKE_PTR(1)
  IN  { LISP_NIL, LISP_TRUE, LISP_FALSE, LISP_INT32(0), LISP_INT32(7), LISP_INT32(42),
        LISP_INT32(120), LISP_INT32(0 - 1), LISP_INT32(0 - 42), quote,
        String(<<>>), String(<<97, 98>>), String(<<97, 32, 98>>), String(<<97, 10, 98>>),
        String(<<97, 34, 98>>), String(<<97, 92, 98>>), String(<<92, 110>>),
        Pair(LISP_INT32(1), LISP_NIL),
        Pair(LISP_INT32(1), LISP_INT32(2)),
        Pair(LISP_INT32(1), Pair(LISP_INT32(2), LISP_INT32(3))),
        Pair(quote, Pair(String(<<97>>), LISP_NIL)),
        Pair(Pair(LISP_TRUE, LISP_NIL), Pair(LISP_NIL, LISP_FALSE)),
        Pair(LISP_INT32(0 - 1), LISP_NIL),
        Pair(String(<<97, 34, 98>>), LISP_INT32(2)) }

\* numerals: '42' '0' '7' '010' '08' '007' '-5' '+5' '-010' '+0'
Numerals ==
  { <<52, 50>>, <<48>>, <<55>>, <<48, 49, 48>>, <<48, 56>>, <<48, 48, 55>>, <<45, 53>>,
    <<43, 53>>, <<45, 48, 49, 48>>, <<43, 48>> }

\* the text that lisp_value_format writes for each value, and the numerals
ReadTexts == {lisp_value_format(InternedSymbols, v) : v \in Values} \cup Numerals

\* a call of lisp_read_form; last keeps the form read and the reader before
\* the call
ReadForm ==
  /\ UNCHANGED object_list
  /\ ~crashed
  /\ steps < MaxTokens
  /\ steps' = steps + 1
  /\ \E form \in {lisp_read_form(Reader)} :
       IF form.rd.s.crash
         THEN /\ crashed' = TRUE
              /\ last' = [op |-> "crash", form |-> 0, val |-> LISP_EXCEPTION,
                          before |-> reader]
              /\ UNCHANGED <<exception_list, interned, reader>>
       ELSE /\ crashed' = FALSE
            /\ exception_list' = form.rd.s.exception_list
            /\ interned' = form.rd.rt
            /\ reader' = [filep |-> form.rd.filep, state |-> form.rd.state,
                          token |-> form.rd.token]
            /\ last' = [op |-> "read", form |-> 0, val |-> form.v, before |-> reader]
  /\ UNCHANGED <<ctxs, vecs, out, log>>

SpecRead == InitOn(ReadTexts) /\ [][ReadForm]_vars

(***************************************************************************)
(* The two drivers of main.c on a stream: interpreter, which stops at the  *)
(* first Exception and returns -1, and repl, which prints the Exception of *)
(* an evaluation and goes on.  last.op tells where the driver is: "loop"   *)
(* and "repl" at the test of feof, "fail" at the label fail, "break" after *)
(* the loop of repl was left, "exit" and "quit" after the return, with the *)
(* status returned; last.form counts the forms evaluated without           *)
(* Exception.                                                              *)
(***************************************************************************)
\* the name of a symbol of the interner, from its character i on, as the
\* string by which the evaluator knows the symbol.  Chars are the characters
\* from '!' (33) to '^' (94); a name holds neither a double quote (34) nor a
\* backslash (92)
RECURSIVE NameString(_, _)
NameString(name, i) ==
  LET Chars ==
        <<"!", "", "#", "$", "%", "&", "'", "(", ")", "*", "+", ",", "-", ".", "/", "0", "1",
        "2", "3", "4", "5", "6", "7", "8", "9", ":", ";", "<", "=", ">", "?", "@", "A", "B",
        "C", "D", "E", "F", "G", "H", "I", "J", "K", "L", "M", "N", "O", "P", "Q", "R", "S",
        "T", "U", "V", "W", "X", "Y", "Z", "[", "", "]", "^">>
  IN  IF i > Len(name) THEN "" ELSE Chars[name[i] - 32] \o NameString(name, i + 1)

\* the form that lisp_read_form returned, as lisp_eval receives it
RECURSIVE Form(_, _)
Form(rt, val) ==
  IF lisp_is_class(val, LISP_CLASS_SYMBOL) 
    THEN Symbol(NameString(rt.array[val[2]].name, 1))
  ELSE IF lisp_is_class(val, LISP_CLASS_PAIR) THEN Pair(Form(rt, val[2]), Form(rt, val[3]))
  ELSE val

\* the scripts:
\*   '1'
\*   '1\n'
\*   '(display 1)'
\*   '(display 1) x (display 2)'
\*   ''
\*   '('
\*   '(lambda)'
\*   '(define x 1) x'
\*   '(set! x y)'
\*   ')'
\*   'x (display 1)'
\*   '"a"'
\*   '(display 1) (display 2) 3'
\*   '1 2 08 4'
\*   '(define x 1)\n(display x)\n'
\*   '(display 1)\n(display 2)\n'
\*   '1 (2'
\*   '(define x 2) (set! x 3) x'
\*   '(define f (lambda () x)) (f) 3'
Scripts ==
  {
    <<49>>,
    <<49, 10>>,
    <<40, 100, 105, 115, 112, 108, 97, 121, 32, 49, 41>>,
    <<40, 100, 105, 115, 112, 108, 97, 121, 32, 49, 41, 32, 120, 32, 40, 100, 105,
       115, 112, 108, 97, 121, 32, 50, 41>>,
    <<>>,
    <<40>>,
    <<40, 108, 97, 109, 98, 100, 97, 41>>,
    <<40, 100, 101, 102, 105, 110, 101, 32, 120, 32, 49, 41, 32, 120>>,
    <<40, 115, 101, 116, 33, 32, 120, 32, 121, 41>>,
    <<41>>,
    <<120, 32, 40, 100, 105, 115, 112, 108, 97, 121, 32, 49, 41>>,
    <<34, 97, 34>>,
    <<40, 100, 105, 115, 112, 108, 97, 121, 32, 49, 41, 32, 40, 100, 105, 115, 112,
       108, 97, 121, 32, 50, 41, 32, 51>>,
    <<49, 32, 50, 32, 48, 56, 32, 52>>,
    <<40, 100, 101, 102, 105, 110, 101, 32, 120, 32, 49, 41, 10, 40, 100, 105, 115,
       112, 108, 97, 121, 32, 120, 41, 10>>,
    <<40, 100, 105, 115, 112, 108, 97, 121, 32, 49, 41, 10, 40, 100, 105, 115, 112,
       108, 97, 121, 32, 50, 41, 10>>,
    <<49, 32, 40, 50>>,
    <<40, 100, 101, 102, 105, 110, 101, 32, 120, 32, 50, 41, 32, 40, 115, 101, 116,
       33, 32, 120, 32, 51, 41, 32, 120>>,
    <<40, 100, 101, 102, 105, 110, 101, 32, 102, 32, 40, 108, 97, 109, 98, 100, 97,
       32, 40, 41, 32, 120, 41, 41, 32, 40, 102, 41, 32, 51>> }

\* abort (), a failed assertion or a fault: the process dies where it is
abort ==
  /\ crashed' = TRUE
  /\ last' = [op |-> "crash", form |-> last.form, val |-> LISP_EXCEPTION,
              before |-> exception_list, at |-> last.op]
  /\ UNCHANGED <<ctxs, vecs, exception_list, out, log, interned, reader>>

\* one turn of the loop of interpreter
Interpret ==
  /\ UNCHANGED object_list
  /\ ~crashed
  /\ last.op \in {"none", "loop"}
  /\ ~reader.filep.eof
  /\ steps < MaxTokens
  /\ steps' = steps + 1
  /\ \E expr \in {lisp_read_form(Reader)} :
       IF expr.rd.s.crash THEN abort
       ELSE IF LISP_IS_EXCEPTION(expr.v)
         THEN /\ reader' = [filep |-> expr.rd.filep, state |-> expr.rd.state,
                            token |-> expr.rd.token]
              /\ interned' = expr.rd.rt
              /\ exception_list' = expr.rd.s.exception_list
              /\ last' = [op |-> "fail", form |-> last.form, val |-> LISP_EXCEPTION,
                          before |-> exception_list]
              /\ UNCHANGED <<ctxs, vecs, out, log, crashed>>
       ELSE
         \E first \in {lisp_eval(Runtime(Uninit[1]), TopLevel, Form(expr.rd.rt, expr.v),
                                 MaxDepth)} :
           \E u \in 1..Len(Uninit) :
             \E val \in {IF u = 1 THEN first
                         ELSE IF first.s.used_uninit
                           THEN lisp_eval(Runtime(Uninit[u]), TopLevel,
                                          Form(expr.rd.rt, expr.v), MaxDepth)
                         ELSE first} :
               /\ u = 1 \/ first.s.used_uninit
               /\ IF val.s.crash THEN abort
                  ELSE /\ reader' = [filep |-> expr.rd.filep, state |-> expr.rd.state,
                                     token |-> expr.rd.token]
                       /\ interned' = expr.rd.rt
                       /\ ctxs' = val.s.ctxs
                       /\ vecs' = val.s.vecs
                       /\ exception_list' = val.s.exception_list
                       /\ out' = val.s.out
                       /\ log' = val.s.log
                       /\ crashed' = FALSE
                       /\ last' = [op |-> IF LISP_IS_EXCEPTION(val.v) THEN "fail" ELSE "loop",
                                   form |-> IF LISP_IS_EXCEPTION(val.v) THEN last.form
                                            ELSE last.form + 1,
                                   val |-> val.v, before |-> exception_list]

\* the label fail of interpreter: lisp_print_exception, then
\* lisp_runtime_free, which asserts that the exception list is Nil, and
\* return -1
Fail ==
  /\ UNCHANGED object_list
  /\ ~crashed
  /\ last.op = "fail"
  /\ \E error \in {lisp_get_exception(Runtime(LISP_NIL), TopLevel)} :
       IF LISP_IS_EXCEPTION(error.v) THEN abort
       ELSE /\ exception_list' = error.s.exception_list
            /\ out' = <<<<"print", error.v>>>>
            /\ log' = error.s.log
            /\ crashed' = (error.s.exception_list # <<>>)
            /\ last' = [op |-> IF error.s.exception_list # <<>> THEN "assert" ELSE "exit",
                        form |-> last.form, val |-> error.v, before |-> exception_list,
                        status |-> 0 - 1]
            /\ UNCHANGED <<ctxs, vecs, interned, reader>>
  /\ UNCHANGED steps

\* the end of the loop of interpreter: lisp_runtime_free and return 0
Exit ==
  /\ ~crashed
  /\ last.op = "loop"
  /\ reader.filep.eof
  /\ crashed' = (exception_list # <<>>)
  /\ last' = [op |-> IF exception_list # <<>> THEN "assert" ELSE "exit",
              form |-> last.form, val |-> last.val, before |-> exception_list,
              status |-> 0]
  /\ UNCHANGED <<ctxs, vecs, exception_list, out, log, steps, interned, reader,
               object_list>>

\* one turn of the loop of repl: the form is printed, then its value or the
\* payload of its Exception; an Exception of lisp_read_form is printed and
\* leaves the loop
Repl ==
  /\ UNCHANGED object_list
  /\ ~crashed
  /\ last.op \in {"none", "repl"}
  /\ ~reader.filep.eof
  /\ steps < MaxTokens
  /\ steps' = steps + 1
  /\ \E exp \in {lisp_read_form(Reader)} :
       IF exp.rd.s.crash THEN abort
       ELSE IF LISP_IS_EXCEPTION(exp.v)
         THEN \E error \in {lisp_get_exception(exp.rd.s, TopLevel)} :
                IF LISP_IS_EXCEPTION(error.v) THEN abort
                ELSE /\ reader' = [filep |-> exp.rd.filep, state |-> exp.rd.state,
                                   token |-> exp.rd.token]
                     /\ interned' = exp.rd.rt
                     /\ exception_list' = error.s.exception_list
                     /\ out' = <<<<"print", error.v>>>>
                     /\ last' = [op |-> "break", form |-> last.form, val |-> LISP_EXCEPTION,
                                 before |-> exception_list]
                     /\ UNCHANGED <<ctxs, vecs, log, crashed>>
       ELSE
         \E first \in {lisp_eval(Runtime(Uninit[1]), TopLevel, Form(exp.rd.rt, exp.v),
                                 MaxDepth)} :
           \E u \in 1..Len(Uninit) :
             \E val \in {IF u = 1 THEN first
                         ELSE IF first.s.used_uninit
                           THEN lisp_eval(Runtime(Uninit[u]), TopLevel,
                                          Form(exp.rd.rt, exp.v), MaxDepth)
                         ELSE first} :
               /\ u = 1 \/ first.s.used_uninit
               /\ IF val.s.crash THEN abort
                  ELSE
                    \E error \in {IF LISP_IS_EXCEPTION(val.v)
                                    THEN lisp_get_exception(val.s, TopLevel)
                                  ELSE val} :
                      IF LISP_IS_EXCEPTION(error.v) THEN abort
                      ELSE /\ reader' = [filep |-> exp.rd.filep, state |-> exp.rd.state,
                                         token |-> exp.rd.token]
                           /\ interned' = exp.rd.rt
                           /\ ctxs' = error.s.ctxs
                           /\ vecs' = error.s.vecs
                           /\ exception_list' = error.s.exception_list
                           /\ out' = <<<<"print", exp.v>>>> \o val.s.out
                                       \o <<<<"print", error.v>>>>
                           /\ log' = error.s.log
                           /\ crashed' = FALSE
                           /\ last' = [op |-> "repl",
                                       form |-> IF LISP_IS_EXCEPTION(val.v) THEN last.form
                                                ELSE last.form + 1,
                                       val |-> val.v, before |-> exception_list]

\* after the loop of repl: lisp_runtime_free and return 0
Quit ==
  /\ ~crashed
  /\ IF last.op = "repl" THEN reader.filep.eof ELSE last.op = "break"
  /\ crashed' = (exception_list # <<>>)
  /\ last' = [op |-> IF exception_list # <<>> THEN "assert" ELSE "quit",
              form |-> last.form, val |-> last.val, before |-> exception_list,
              status |-> 0]
  /\ UNCHANGED <<ctxs, vecs, exception_list, out, log, steps, interned, reader,
               object_list>>

SpecScript == InitOn(Scripts) /\ [][Interpret \/ Fail \/ Exit \/ Repl \/ Quit]_vars

(***************************************************************************)
(* The objects of the reference-counted variant.  A heap value is a        *)
(* pointer <<class, i>> to the i-th object ever allocated; an object keeps *)
(* its ref_count, the values of its fields and whether it was freed.  h    *)
(* holds the objects, the exception list, the output and three flags:      *)
(* crash for a failed assertion, ub for an access to a freed object, and   *)
(* the ghost dangling for an object freed while a field of an object that  *)
(* is not freed still points to it.                                        *)
(***************************************************************************)
obj_IS_OBJECT(val) == Len(val) = 2 /\ LISP_IS_PTR(val)

\* the references to an object from the fields of the objects not freed
obj_Fields(objects, val) ==
  Cardinality({i \in 1..Len(objects) : ~objects[i].freed /\ objects[i].car = val})
    + Cardinality({i \in 1..Len(objects) : ~objects[i].freed /\ objects[i].cdr = val})

\* lisp_new_cons, lisp_new_string_full, lisp_new_symbol_full and
\* lisp_new_function: a new object with ref_count 1
obj_lisp_new(h, class, car, cdr, str) ==
  [h |-> [h EXCEPT !.objects = Append(@, [class |-> class, ref_count |-> 1, freed |-> FALSE,
                                          car |-> car, cdr |-> cdr, str |-> str])],
   v |-> <<class, Len(h.objects) + 1>>]

obj_lisp_dup_value(h, val) ==
  IF ~obj_IS_OBJECT(val) THEN h
  ELSE IF h.objects[val[2]].freed THEN [h EXCEPT !.ub = TRUE]
  ELSE IF ~(h.objects[val[2]].ref_count > 0) THEN [h EXCEPT !.crash = TRUE]
  ELSE [h EXCEPT !.objects[val[2]].ref_count = @ + 1]

\* lisp_free_value with the free operation of each class: lisp_cons_free
\* frees the car and then the cdr, lisp_function_free the params and the
\* body, lisp_string_free and lisp_symbol_free the memory alone
RECURSIVE obj_lisp_free_value(_, _)
obj_lisp_free_value(h, val) ==
  IF ~obj_IS_OBJECT(val) THEN h
  ELSE IF h.objects[val[2]].freed THEN [h EXCEPT !.ub = TRUE]
  ELSE IF h.objects[val[2]].ref_count - 1 # 0
    THEN [h EXCEPT !.objects[val[2]].ref_count = @ - 1]
  ELSE
       [obj \in Any |->
       [freed \in Any |->
           IF obj.class \in {LISP_CLASS_PAIR, LISP_CLASS_FUNCTION}
             THEN obj_lisp_free_value(obj_lisp_free_value(freed, obj.car), obj.cdr)
           ELSE freed
       ][[h EXCEPT !.objects[val[2]] = [@ EXCEPT !.ref_count = 0, !.freed = TRUE],
                   !.dangling = @ \/ obj_Fields(h.objects, val) > 0]
       ]
       ][h.objects[val[2]]
       ]

\* lisp_throw_internal_error: a new string consed onto the exception list
obj_lisp_throw_internal_error(h, msg) ==
  [err_msg \in Any |->
  [cons \in Any |->
      [cons.h EXCEPT !.exception_list = cons.v]
  ][obj_lisp_new(err_msg.h, LISP_CLASS_PAIR, err_msg.v, err_msg.h.exception_list, "")
  ]
  ][obj_lisp_new(h, LISP_CLASS_STRING, LISP_NIL, LISP_NIL, msg)
  ]

\* lisp_car (field = 3) and lisp_cdr (field = 4): lisp_get_object, then
\* lisp_dup_value of the field
obj_lisp_car(h, val, field) ==
  IF LISP_IS_NIL(val)
    THEN [h |-> obj_lisp_throw_internal_error(h, "Object pointer not set"),
          v |-> LISP_EXCEPTION]
  ELSE IF ~(obj_IS_OBJECT(val) /\ val[1] = LISP_CLASS_PAIR)
    THEN [h |-> obj_lisp_throw_internal_error(h, "Type mismatch"), v |-> LISP_EXCEPTION]
  ELSE IF h.objects[val[2]].freed
    THEN [h |-> [h EXCEPT !.ub = TRUE], v |-> LISP_EXCEPTION]
  ELSE
       [r \in Any |->
           [h |-> obj_lisp_dup_value(h, r), v |-> r]
       ][IF field = 3 THEN h.objects[val[2]].car ELSE h.objects[val[2]].cdr
       ]

\* the objects that lisp_parse allocates for a form: each pair, string and
\* symbol is a new object that the pair it is a field of, or the caller, owns
RECURSIVE obj_lisp_parse(_, _)
obj_lisp_parse(h, form) ==
  IF lisp_is_class(form, LISP_CLASS_PAIR)
    THEN
         [val \in Any |->
         [cdr \in Any |->
             obj_lisp_new(cdr.h, LISP_CLASS_PAIR, val.v, cdr.v, "")
         ][obj_lisp_parse(val.h, form[3])
         ]
         ][obj_lisp_parse(h, form[2])
         ]
  ELSE IF lisp_is_class(form, LISP_CLASS_SYMBOL) \/ lisp_is_class(form, LISP_CLASS_STRING)
    THEN obj_lisp_new(h, form[1], LISP_NIL, LISP_NIL, form[2])
  ELSE [h |-> h, v |-> form]

\* the variables of the global context that the forms use: the objects of
\* the functions PRINT and QUOTE, which lisp_new_global_context allocates
obj_var_list ==
  << [name |-> "PRINT", value |-> <<LISP_CLASS_FUNCTION, 1>>, invoker |-> "lisp_print"],
     [name |-> "QUOTE", value |-> <<LISP_CLASS_FUNCTION, 2>>, invoker |-> "lisp_quote"] >>

\* lisp_eval with lisp_print, lisp_do_print_car and lisp_cdr_take, and
\* lisp_quote, which is lisp_car: every lisp_dup_value and lisp_free_value
\* of the code
RECURSIVE obj_lisp_eval(_, _, _)
obj_lisp_eval(h, val, d) ==
  LET lisp_context_find_variable(name) ==
        SelectSeq(obj_var_list, LAMBDA var : var.name = h.objects[name[2]].str)
      lisp_cdr_take(hh, list) ==
        [r \in Any |->
            [h |-> obj_lisp_free_value(r.h, list), v |-> r.v]
        ][obj_lisp_car(hh, list, 4)
        ]
      lisp_do_print_car(hh, list) ==
        [expr \in Any |->
        [value \in Any |->
            IF LISP_IS_EXCEPTION(value.v)
              THEN [h |-> obj_lisp_free_value(value.h, expr.v), v |-> 0 - 1]
            ELSE [h |-> obj_lisp_free_value(
                          obj_lisp_free_value([value.h EXCEPT !.out = Append(@, value.v)],
                                              value.v),
                          expr.v),
                  v |-> 0]
        ][obj_lisp_eval(expr.h, expr.v, d - 1)
        ]
        ][obj_lisp_car(hh, list, 3)
        ]
      RECURSIVE lisp_print_loop(_, _)
      lisp_print_loop(hh, args) ==
        IF LISP_IS_NIL(args) \/ LISP_IS_EXCEPTION(args) THEN [h |-> hh, v |-> LISP_NIL]
        ELSE
             [printed \in Any |->
                 IF printed.v # 0
                   THEN [h |-> obj_lisp_free_value(printed.h, args), v |-> LISP_EXCEPTION]
                 ELSE
                      [rest \in Any |->
                          lisp_print_loop(rest.h, rest.v)
                      ][lisp_cdr_take(printed.h, args)
                      ]
             ][lisp_do_print_car(hh, args)
             ]
      lisp_print(hh, args) == lisp_print_loop(obj_lisp_dup_value(hh, args), args)
  IN  IF h.crash \/ h.ub THEN [h |-> h, v |-> LISP_EXCEPTION]
      ELSE IF d = 0 THEN [h |-> [h EXCEPT !.crash = TRUE], v |-> LISP_EXCEPTION]
      ELSE IF obj_IS_OBJECT(val) /\ val[1] = LISP_CLASS_PAIR
        THEN
             [func_expr \in Any |->
             [func \in Any |->
             [released \in Any |->
                 IF LISP_IS_EXCEPTION(func.v) THEN [h |-> released, v |-> LISP_EXCEPTION]
                 ELSE IF ~(obj_IS_OBJECT(func.v) /\ func.v[1] = LISP_CLASS_FUNCTION)
                   THEN [h |-> obj_lisp_free_value(
                                 obj_lisp_throw_internal_error(released, "Need a function"),
                                 func.v),
                         v |-> LISP_EXCEPTION]
                 ELSE
                      [args \in Any |->
                      [r \in Any |->
                          [h |-> obj_lisp_free_value(obj_lisp_free_value(r.h, args.v), func.v),
                           v |-> r.v]
                      ][IF func.v = obj_var_list[1].value THEN lisp_print(args.h, args.v)
                        ELSE obj_lisp_car(args.h, args.v, 3)
                      ]
                      ][obj_lisp_car(released, val, 4)
                      ]
             ][obj_lisp_free_value(func.h, func_expr.v)
             ]
             ][obj_lisp_eval(func_expr.h, func_expr.v, d - 1)
             ]
             ][obj_lisp_car(h, val, 3)
             ]
      ELSE IF obj_IS_OBJECT(val) /\ val[1] = LISP_CLASS_SYMBOL
        THEN
             [var \in Any |->
                 IF Len(var) = 0
                   THEN [h |-> obj_lisp_throw_internal_error(
                                 h, "Variable " \o h.objects[val[2]].str \o " not found"),
                         v |-> LISP_EXCEPTION]
                 ELSE [h |-> obj_lisp_dup_value(h, var[1].value), v |-> var[1].value]
             ][lisp_context_find_variable(val)
             ]
      ELSE [h |-> h, v |-> val]

\* lisp_get_exception and the lisp_free_value of lisp_print_exception
obj_lisp_print_exception(h) ==
  [val \in Any |->
  [rest \in Any |->
      IF LISP_IS_EXCEPTION(val.v) THEN [rest.h EXCEPT !.crash = TRUE]
      ELSE obj_lisp_free_value(
             [rest.h EXCEPT !.exception_list = rest.v, !.out = Append(@, val.v)], val.v)
  ][[r \in Any |->
        [h |-> obj_lisp_free_value(r.h, val.h.exception_list), v |-> r.v]
    ][obj_lisp_car(val.h, val.h.exception_list, 4)
    ]
  ]
  ][obj_lisp_car(h, h.exception_list, 3)
  ]

\* (print 1), (print "a"), (print (quote "a")), (quote "a"),
\* (quote ("a" 1)), ("a"), (1 2), (x), "a", 1, (print), (print 1 "a"),
\* (quote), x
ObjectForms ==
  << List(<<Symbol("PRINT"), LISP_INT32(1)>>),
     List(<<Symbol("PRINT"), String("a")>>),
     List(<<Symbol("PRINT"), List(<<Symbol("QUOTE"), String("a")>>)>>),
     List(<<Symbol("QUOTE"), String("a")>>),
     List(<<Symbol("QUOTE"), List(<<String("a"), LISP_INT32(1)>>)>>),
     List(<<String("a")>>),
     List(<<LISP_INT32(1), LISP_INT32(2)>>),
     List(<<Symbol("X")>>),
     String("a"),
     LISP_INT32(1),
     List(<<Symbol("PRINT")>>),
     List(<<Symbol("PRINT"), LISP_INT32(1), String("a")>>),
     List(<<Symbol("QUOTE")>>),
     Symbol("X") >>

\* after lisp_new_global_context: the two functions, each owned by its
\* variable; the exception list is Nil
obj_Init ==
  /\ ctxs = rc_GlobalContext.s.ctxs
  /\ vecs = <<>>
  /\ exception_list = LISP_NIL
  /\ out = <<>>
  /\ log = <<>>
  /\ last = [op |-> "none", form |-> 0, val |-> LISP_NIL, before |-> LISP_NIL]
  /\ crashed = FALSE
  /\ steps = 0
  /\ interned = InternedSymbols
  /\ reader = lisp_reader_new(<<>>)
  /\ object_list =
       [i \in 1..Len(obj_var_list) |->
          [class |-> LISP_CLASS_FUNCTION, ref_count |-> 1, freed |-> FALSE,
           car |-> LISP_NIL, cdr |-> LISP_NIL, str |-> obj_var_list[i].invoker]]

\* one turn of a read-eval-print loop on the i-th form: lisp_parse,
\* lisp_eval, the value or the exception printed, lisp_free_value of the
\* value and of the form.  After an access to a freed object the process
\* may die or go on
obj_Eval(i) ==
  /\ ~crashed
  /\ steps < MaxSteps
  /\ steps' = steps + 1
  /\ \E exp \in {obj_lisp_parse([objects |-> object_list, exception_list |-> exception_list,
                                 out |-> <<>>, crash |-> FALSE, ub |-> FALSE,
                                 dangling |-> FALSE], ObjectForms[i])} :
       \E val \in {obj_lisp_eval(exp.h, exp.v, MaxDepth)} :
         \E h \in {obj_lisp_free_value(
                     obj_lisp_free_value(
                       IF LISP_IS_EXCEPTION(val.v) THEN obj_lisp_print_exception(val.h)
                       ELSE [val.h EXCEPT !.out = Append(@, val.v)],
                       val.v),
                     exp.v)} :
           \E dies \in BOOLEAN :
             /\ dies => (h.crash \/ h.ub)
             /\ h.crash => dies
             /\ crashed' = dies
             /\ object_list' = h.objects
             /\ exception_list' = h.exception_list
             /\ out' = h.out
             /\ last' = [op |-> "eval", form |-> i, val |-> val.v, before |-> exception_list,
                         ub |-> h.ub, dangling |-> h.dangling]
  /\ UNCHANGED <<ctxs, vecs, log, interned, reader>>

SpecObjects == obj_Init /\ [][\E i \in 1..Len(ObjectForms) : obj_Eval(i)]_vars

SymbolNames ==
  { <<97>>, <<65>>, <<98>>, <<98, 97>>, <<66, 65>>, <<66, 97>>, <<35, 66>>, <<35, 98>>,
    <<113, 117, 111, 116, 101>> }

Intern(name) ==
  /\ steps < MaxSteps
  /\ \E sym \in {lisp_interned_symbol(interned, name)} :
       /\ interned' = sym.rt
       /\ log' = Append(log, [ev |-> "intern", name |-> name, sym |-> sym.v])
       /\ last' = [op |-> "intern", form |-> 0, val |-> sym.v, before |-> <<>>]
  /\ steps' = steps + 1
  /\ UNCHANGED <<ctxs, vecs, exception_list, out, crashed, reader,
               object_list>>

SpecIntern == Init /\ [][\E name \in SymbolNames : Intern(name)]_vars

(***************************************************************************)
(* Properties.  The helpers below read the log without the functions of    *)
(* the interpreter.                                                        *)
(***************************************************************************)
Events(kind) == {i \in 1..Len(log) : log[i].ev = kind}

\* the values of the cells of a frame that hold name, in the order of a search
Cells(vs, name) ==
  LET Holds(cell) == cell[1] = name
      cells == SelectSeq(vs, Holds)
  IN  [i \in 1..Len(cells) |-> cells[i][2]]

\* the frames from c to the root
RECURSIVE Chain(_, _)
Chain(cs, c) == IF c = 0 THEN <<>> ELSE <<c>> \o Chain(cs, cs[c].parent)

\* <<frame, value>> of the binding of name nearest to c, <<>> if it is unbound
RECURSIVE Visible(_, _, _)
Visible(cs, c, name) ==
  IF c = 0 THEN <<>>
  ELSE IF Cells(cs[c].vars, name) # <<>> THEN <<c, Cells(cs[c].vars, name)[1]>>
  ELSE Visible(cs, cs[c].parent, name)

\* the symbols bound in a frame
Names(vs) == {vs[i][1] : i \in 1..Len(vs)}

\* the elements of a list
RECURSIVE Elements(_)
Elements(list) ==
  IF lisp_is_class(list, LISP_CLASS_PAIR) THEN <<list[2]>> \o Elements(list[3]) ELSE <<>>

\* an Exception, or a chain of pairs that leads to one
RECURSIVE HoldsException(_)
HoldsException(v) ==
  \/ LISP_IS_EXCEPTION(v)
  \/ lisp_is_class(v, LISP_CLASS_PAIR) /\ (HoldsException(v[2]) \/ HoldsException(v[3]))

\* C1: no binding of an environment, no element of a vector, no car or cdr
\* of a pair reachable from them or from the value returned, and no
\* argument bound to a parameter is the Exception value
C1_NoExceptionStored ==
  /\ \A c \in 1..Len(ctxs) : \A i \in 1..Len(ctxs[c].vars) :
       ~HoldsException(ctxs[c].vars[i][2])
  /\ \A v \in 1..Len(vecs) : \A k \in 1..Len(vecs[v].data) : ~HoldsException(vecs[v].data[k])
  /\ last.op = "eval" /\ ~LISP_IS_EXCEPTION(last.val) => ~HoldsException(last.val)

\* C2: a call of lisp_eval either returns Exception and has pushed at least
\* one payload on the exception list, or returns another value and leaves
\* the exception list as it was
C2_ExceptionProtocol ==
  last.op = "eval" =>
    IF LISP_IS_EXCEPTION(last.val)
      THEN /\ Len(exception_list) > Len(last.before)
           /\ SubSeq(exception_list, Len(exception_list) - Len(last.before) + 1,
                     Len(exception_list)) = last.before
    ELSE exception_list = last.before

\* C3: a lookup returns the value of the first binding of the symbol on the
\* way from the frame to the root, so that an inner binding shadows an outer
\* one; if there is none it returns Exception and pushes the payload of an
\* unbound variable; no frame is modified
C3_Lookup ==
  \A i \in Events("lookup") :
    LET e == log[i]
        bound == Visible(e.before, e.ctx, e.name)
    IN  /\ e.after = e.before
        /\ IF bound # <<>>
             THEN e.result = bound[2] /\ e.exc_after = e.exc_before
           ELSE /\ LISP_IS_EXCEPTION(e.result)
                /\ e.exc_after = <<String("no such variable: " \o LISP_SYMBOL_STR(e.name))>>
                                   \o e.exc_before

\* a lookup found the inner one of two bindings with different values
C3_Witness ==
  \E i \in Events("lookup") :
    LET e == log[i]
        frames == {c \in 1..Len(e.before) :
                     \E k \in 1..Len(Chain(e.before, e.ctx)) :
                       Chain(e.before, e.ctx)[k] = c /\ Cells(e.before[c].vars, e.name) # <<>>}
    IN  /\ Cardinality(frames) = 2
        /\ e.result = LISP_INT32(1)
        /\ \E c \in frames : Cells(e.before[c].vars, e.name)[1] = LISP_INT32(2)

\* C4: the body of an interpreted procedure is evaluated in a frame made for
\* the call whose parent is the environment the procedure captured, whatever
\* the frame of the caller
C4_LexicalScope ==
  \A i \in Events("call") :
    log[i].new_ctx # 0 => log[i].fresh /\ log[i].parent = fn_ctx(log[i].func)

\* C5: a set! of a bound symbol that succeeds overwrites the cell of the
\* nearest binding with the value, which a lookup then yields, and leaves
\* every other cell and the symbols bound in every frame as they were
C5_SetBound ==
  \A i \in Events("set") :
    LET e == log[i]
        bound == Visible(e.before, e.ctx, e.name)
    IN  bound # <<>> /\ ~LISP_IS_EXCEPTION(e.result) =>
          LET f == bound[1]
              cell == CHOOSE k \in 1..Len(e.before[f].vars) :
                        /\ e.before[f].vars[k][1] = e.name
                        /\ \A j \in 1..(k - 1) : e.before[f].vars[j][1] # e.name
          IN  /\ Visible(e.after, e.ctx, e.name) = <<f, e.value>>
              /\ e.after = [e.before EXCEPT ![f].vars[cell][2] = e.value]
              /\ \A c \in 1..Len(e.before) : Names(e.after[c].vars) = Names(e.before[c].vars)

\* a set! in a let body overwrote the binding of the top-level frame
C5_Witness ==
  \E i \in Events("set") :
    LET e == log[i]
    IN  /\ e.ctx # TopLevel
        /\ Visible(e.before, e.ctx, e.name) # <<>>
        /\ Visible(e.before, e.ctx, e.name)[1] = TopLevel
        /\ Visible(e.before, e.ctx, e.name)[2] # e.value
        /\ LISP_IS_NIL(e.result)
        /\ Visible(ctxs, TopLevel, e.name) = <<TopLevel, e.value>>

\* C6: a set! of a symbol bound nowhere on the way to the root returns
\* Exception, pushes the payload of an unbound variable and changes no frame
C6_SetUnbound ==
  \A i \in Events("set") :
    LET e == log[i]
    IN  Visible(e.before, e.ctx, e.name) = <<>> =>
          /\ LISP_IS_EXCEPTION(e.result)
          /\ e.after = e.before
          /\ e.exc_after = <<String("no such variable")>> \o e.exc_before

\* a set! of an unbound symbol was evaluated
C6_Witness ==
  /\ last.op = "eval"
  /\ LISP_IS_EXCEPTION(last.val)
  /\ \E i \in Events("set") :
       Visible(log[i].before, log[i].ctx, log[i].name) = <<>> /\ log[i].name = X

\* C7: a define of a symbol with a value binds the symbol, and a lookup from
\* the frame then yields that value; a symbol of the top-level frame can be
\* defined again, and the lookup yields the value of the latest define
C7_Define ==
  /\ \A i \in Events("define") :
       LET e == log[i]
       IN  LISP_IS_SYMBOL(e.name) /\ ~LISP_IS_EXCEPTION(e.value) =>
             e.result = 0 /\ Visible(e.after, e.ctx, e.name) = <<e.ctx, e.value>>
  /\ last.op = "eval" /\ last.form = 1 =>
       ~LISP_IS_EXCEPTION(last.val) /\ Visible(ctxs, TopLevel, X) = <<TopLevel, LISP_INT32(1)>>
  /\ last.op = "eval" /\ last.form = 2 =>
       ~LISP_IS_EXCEPTION(last.val) /\ Visible(ctxs, TopLevel, X) = <<TopLevel, LISP_INT32(2)>>

\* X, bound to 1 in the top-level frame, was defined again as 2
C7_Witness ==
  /\ last.op = "eval"
  /\ last.form = 2
  /\ \E i \in Events("define") :
       /\ log[i].ctx = TopLevel
       /\ Cells(log[i].before[TopLevel].vars, X) = <<LISP_INT32(1)>>
  /\ Visible(ctxs, TopLevel, X) = <<TopLevel, LISP_INT32(2)>>

\* C8: a define adds one variable to the frame it is evaluated in and
\* changes no other frame; a define in the body of a procedure or of a let
\* binds in the frame of that body
C8_DefineLocal ==
  /\ \A i \in Events("define") :
       LET e == log[i]
       IN  /\ Len(e.after) = Len(e.before)
           /\ \A c \in 1..Len(e.before) : c # e.ctx => e.after[c] = e.before[c]
           /\ e.result # 0 => e.after = e.before
           /\ e.result = 0 =>
                /\ e.after[e.ctx].parent = e.before[e.ctx].parent
                /\ Len(e.after[e.ctx].vars) = Len(e.before[e.ctx].vars) + 1
                /\ Names(e.after[e.ctx].vars) = Names(e.before[e.ctx].vars) \cup {e.name}
                /\ \A n \in Names(e.before[e.ctx].vars) \ {e.name} :
                     Cells(e.after[e.ctx].vars, n) = Cells(e.before[e.ctx].vars, n)
  /\ last.op = "eval" /\ last.form = 7 =>
       \A i \in Events("define") :
         /\ \E j \in Events("call") : j < i /\ log[j].new_ctx = log[i].ctx
         /\ Visible(log[i].after, TopLevel, X) = Visible(log[i].before, TopLevel, X)
  /\ last.op = "eval" /\ last.form = 10 =>
       \A i \in Events("define") :
         log[i].ctx # TopLevel /\ log[i].after[log[i].ctx].name = "LET"

\* a define in the body of a procedure bound X in the frame of the call
\* while the top-level frame kept its binding of X
C8_Witness ==
  /\ last.op = "eval"
  /\ last.form = 7
  /\ \E i \in Events("define") :
       LET e == log[i]
       IN  /\ e.name = X
           /\ e.result = 0
           /\ e.ctx # TopLevel
           /\ Visible(e.before, TopLevel, X) # <<>>
           /\ Visible(ctxs, TopLevel, X) = Visible(e.before, TopLevel, X)
           /\ Visible(e.after, e.ctx, X) = <<e.ctx, LISP_INT32(9)>>

\* C9: a define of a symbol that the local frame it is evaluated in already
\* binds fails and leaves the binding as it was
C9_RedefineLocal ==
  \A i \in Events("define") :
    LET e == log[i]
    IN  e.ctx # TopLevel /\ LISP_IS_SYMBOL(e.name) /\ Cells(e.before[e.ctx].vars, e.name) # <<>>
          => e.result # 0 /\ e.after = e.before

\* C10: the arguments of a call are evaluated in the order of the argument
\* list, each once; none is evaluated after one that raised, and the callee
\* is entered only after all of them were evaluated
C10_ArgumentOrder ==
  \A i \in Events("call") :
    LET c == log[i]
        args == Elements(c.args)
        IsArg(e) == e.ev = "evalarg" /\ e.id = c.id
        evs == SelectSeq(log, IsArg)
        entered == \E j \in Events("body") : log[j].id = c.id
    IN  /\ Len(evs) <= Len(args)
        /\ \A k \in 1..Len(evs) :
             evs[k].expr = args[k] /\ (evs[k].raised => k = Len(evs))
        /\ entered => Len(evs) = Len(args)

\* the payloads that n calls of lisp_get_exception return, in their order,
\* and the exception list they leave
RECURSIVE Popped(_, _)
Popped(s, n) ==
  IF n = 0 THEN [vals |-> <<>>, rest |-> s.exception_list]
  ELSE LET error == lisp_get_exception(s, TopLevel)
           more == Popped(error.s, n - 1)
       IN  [vals |-> <<error.v>> \o more.vals, rest |-> more.rest]

\* the payloads of the throw events of the log, the latest first
Raised ==
  LET IsThrow(e) == e.ev = "throw"
      throws == SelectSeq(log, IsThrow)
  IN  [k \in 1..Len(throws) |-> throws[Len(throws) + 1 - k].error]

\* C11: the exception list is a stack: a raise puts its payload on top of
\* the payloads that were there, get_exception returns and removes the top
\* payload, and as many calls of get_exception as there are payloads return
\* them from the latest raised to the earliest and leave the list empty
C11_ExceptionStack ==
  /\ \A i \in Events("throw") : log[i].after = <<log[i].error>> \o log[i].before
  /\ last.op = "eval" => exception_list = Raised \o last.before
  /\ last.op = "print" => last.before = <<last.val>> \o exception_list
  /\ Popped(Runtime(LISP_NIL), Len(exception_list)) =
       [vals |-> exception_list, rest |-> <<>>]

\* two payloads raised by one evaluation on top of an older one; the print
\* that follows takes the latest of the three
C11_Witness ==
  /\ last.op = "print"
  /\ Len(exception_list) = 2
  /\ Len(last.before) = 3
  /\ last.val = last.before[1]
  /\ last.val # exception_list[1]
  /\ exception_list[1] # exception_list[2]

\* a name with its lower-case letters replaced by the upper-case ones
CaseFolded(name) ==
  [i \in 1..Len(name) |-> IF name[i] \in 97..122 THEN name[i] - 32 ELSE name[i]]

\* C12: two calls of lisp_interned_symbol return the same symbol object
\* exactly when their names are equal under case folding, lisp_eqv says so,
\* and the interner holds no two symbol objects with the same case-folded
\* name
C12_Canonical ==
  /\ \A i, j \in Events("intern") :
       /\ log[i].sym = log[j].sym <=> CaseFolded(log[i].name) = CaseFolded(log[j].name)
       /\ lisp_eqv(log[i].sym, log[j].sym) = 1
            <=> CaseFolded(log[i].name) = CaseFolded(log[j].name)
  /\ \A i \in Events("intern") :
       CaseFolded(interned.array[log[i].sym[2]].name) = CaseFolded(log[i].name)
  /\ \A i, j \in 1..Len(interned.array) :
       CaseFolded(interned.array[i].name) = CaseFolded(interned.array[j].name) => i = j

\* ba, #B and BA were interned: ba and BA are one object, #B, whose hash is
\* that of BA, is another
C12_Witness ==
  /\ Len(log) = 3
  /\ log[1].ev = "intern" /\ log[1].name = <<98, 97>>
  /\ log[2].ev = "intern" /\ log[2].name = <<35, 66>>
  /\ log[3].ev = "intern" /\ log[3].name = <<66, 65>>
  /\ log[1].sym = log[3].sym
  /\ log[2].sym # log[3].sym
  /\ lisp_hash_str(log[2].name, 1, 0, 1) = lisp_hash_str(log[3].name, 1, 0, 1)

\* C13: every init expression of a let is evaluated in the environment that
\* encloses the let, so that (let ((x 2) (y x)) y) yields the outer value of
\* x, or raises if x has no outer binding
C13_LetEnclosing ==
  /\ \A i \in Events("init") :
       log[i].magic = LISP_MAGIC_LET => log[i].env = log[i].ctx
  /\ last.op = "eval" /\ last.form = 2 =>
       IF Visible(ctxs, TopLevel, X) = <<>> THEN LISP_IS_EXCEPTION(last.val)
       ELSE last.val = Visible(ctxs, TopLevel, X)[2]

\* C14: an init expression of a let* sees the bindings made earlier by the
\* same let*, so that (let* ((x 2) (y x)) y) yields 2
C14_LetStarSequential ==
  /\ \A i, j \in Events("init") :
       LET e == log[i]
           earlier == log[j]
       IN  /\ j < i
           /\ e.magic = LISP_MAGIC_LETSTAR
           /\ earlier.magic = LISP_MAGIC_LETSTAR
           /\ earlier.ctx = e.ctx
           /\ \E k \in 1..Len(Chain(e.before, e.new_ctx)) :
                Chain(e.before, e.new_ctx)[k] = earlier.new_ctx
           /\ earlier.name # e.name
           => Visible(e.before, e.env, earlier.name) = <<earlier.new_ctx, earlier.value>>
  /\ last.op = "eval" /\ last.form = 3 => last.val = LISP_INT32(2)

\* C15: every init expression of a letrec is evaluated in the new
\* environment, and the procedures bound by one letrec can call each other:
\* the scenario of even? and odd? displays #T for 10
C15_LetrecMutual ==
  /\ \A i \in Events("init") :
       log[i].magic = LISP_MAGIC_LETREC => log[i].env = log[i].new_ctx
  /\ last.op = "eval" /\ last.form = 5 => last.val = LISP_TRUE
  /\ last.form = 4 =>
       /\ last.op = "eval"
       /\ ~LISP_IS_EXCEPTION(last.val)
       /\ \E k \in 1..Len(out) : out[k] = <<"display", LISP_TRUE>>

\* what follows the last pair of a list: LISP_NIL for a proper list
RECURSIVE Terminator(_)
Terminator(list) ==
  IF lisp_is_class(list, LISP_CLASS_PAIR) THEN Terminator(list[3]) ELSE list

\* the call entered the callee: the body of the procedure, or the native
Entered(c) == \E j \in Events("body") : log[j].id = c.id

\* C16: a call of an interpreted procedure whose parameters are a proper list
\* of n symbols evaluates the body only when it has exactly n arguments,
\* each parameter then bound to the value of its argument; a call with
\* fewer or more arguments returns Exception
C16_ExactArity ==
  /\ \A i \in Events("call") :
       LET c == log[i]
           params == fn_params(c.func)
       IN  /\ fn_invoker(c.func) = "lisp_function_invoker"
           /\ LISP_IS_NIL(Terminator(params))
           /\ Entered(c)
           => Len(Elements(c.args)) = Len(Elements(params))
  /\ last.form \in {6, 7} => last.op = "eval" /\ LISP_IS_EXCEPTION(last.val)
  /\ last.op = "eval" /\ last.form = 8 => last.val = LISP_INT32(2)

\* C17: a call with m arguments of a procedure whose parameters are n
\* symbols followed by a rest symbol binds the rest symbol to a proper list
\* of the values of the arguments after the n-th, in their order, which is
\* LISP_NIL when m = n
C17_RestList ==
  /\ \A i \in Events("call") : \A j \in Events("define") :
       LET c == log[i]
           params == fn_params(c.func)
           n == Len(Elements(params))
           m == Len(Elements(c.args))
           e == log[j]
       IN  /\ fn_invoker(c.func) = "lisp_function_invoker"
           /\ LISP_IS_SYMBOL(Terminator(params))
           /\ m >= n
           /\ Entered(c)
           /\ e.ctx = c.new_ctx
           /\ e.name = Terminator(params)
           => /\ LISP_IS_NIL(Terminator(e.value))
              /\ Len(Elements(e.value)) = m - n
  /\ last.form \in {9, 11} => last.op = "eval" /\ last.val = LISP_NIL
  /\ last.form = 10 => last.op = "eval" /\ last.val = List(<<LISP_INT32(2), LISP_INT32(3)>>)

\* C18: a call of a native procedure of fixed arity with more arguments than
\* its arity raises "too many arguments" and returns Exception without
\* entering the native; a native of arity -1 is entered with any number of
\* arguments, once they were evaluated
C18_NativeArity ==
  /\ \A i \in Events("call") :
       LET c == log[i]
           m == Len(Elements(c.args))
           IsArg(e) == e.ev = "evalarg" /\ e.id = c.id
           evs == SelectSeq(log, IsArg)
       IN  fn_invoker(c.func) = "lisp_cfunc_invoker" =>
             IF fn_arg_max(c.func) >= 0 /\ m > fn_arg_max(c.func)
               THEN /\ ~Entered(c)
                    /\ i < Len(log)
                    /\ log[i + 1].ev = "throw"
                    /\ log[i + 1].error = String("too many arguments")
             ELSE Entered(c) <=> Len(evs) = m /\ \A k \in 1..m : ~evs[k].raised
  /\ last.form = 12 =>
       /\ last.op = "eval"
       /\ LISP_IS_EXCEPTION(last.val)
       /\ exception_list = <<String("too many arguments")>> \o last.before
  /\ last.form = 13 =>
       /\ last.op = "eval"
       /\ lisp_is_class(last.val, LISP_CLASS_VECTOR)
       /\ vecs[last.val[2]].length = 3

\* vector-length, of arity 1, was called with two arguments
C18_Witness ==
  /\ last.op = "eval"
  /\ last.form = 12
  /\ LISP_IS_EXCEPTION(last.val)
  /\ \E i \in Events("call") :
       /\ fn_cfunc(log[i].func) = "lisp_vector_length"
       /\ fn_arg_max(log[i].func) = 1
       /\ Len(Elements(log[i].args)) = 2
       /\ ~Entered(log[i])

\* C19: vector-length, vector-capacity, vector-ref and vector-copy of a value
\* that is not a vector, a missing argument included, and the car of an
\* integer return Exception with a payload pushed; the process does not die
C19_TypeError ==
  last.form \in {9, 10, 11, 12, 13, 14} =>
    /\ last.op = "eval"
    /\ LISP_IS_EXCEPTION(last.val)
    /\ Len(exception_list) > Len(last.before)

\* C20: vector-ref and vector-set! of a vector of length n at an integer k
\* outside 0..n-1 return Exception, push "Out of range" and leave every
\* vector as it was; inside, vector-ref returns element k and changes
\* nothing, and vector-set! returns Nil and changes element k alone
C20_Range ==
  \A i \in Events("return") :
    LET e == log[i]
        v == e.argv[1][2]
        k == e.argv[2][2]
    IN  /\ e.cfunc \in {"lisp_vector_ref", "lisp_vector_set"}
        /\ lisp_is_class(e.argv[1], LISP_CLASS_VECTOR)
        /\ LISP_IS_INT(e.argv[2])
        => IF k < 0 \/ k >= e.vecs[v].length
             THEN /\ LISP_IS_EXCEPTION(e.value)
                  /\ e.after = <<String("Out of range")>> \o e.before
                  /\ e.vecs_after = e.vecs
           ELSE /\ e.after = e.before
                /\ IF e.cfunc = "lisp_vector_ref"
                     THEN /\ e.value = e.vecs[v].data[k + 1]
                          /\ e.vecs_after = e.vecs
                   ELSE /\ e.value = LISP_NIL
                        /\ e.vecs_after = [e.vecs EXCEPT ![v].data[k + 1] = e.argv[3]]

\* after (vector-set! v 0 9) has stored 9 in the vector <<1, 2>>, a
\* vector-ref or vector-set! at position 2 has raised and left it alone
C20_Witness ==
  /\ last.op = "eval"
  /\ last.form \in {2, 4}
  /\ LISP_IS_EXCEPTION(last.val)
  /\ exception_list = <<String("Out of range")>> \o last.before
  /\ Len(vecs) = 1
  /\ vecs[1].data = <<LISP_INT32(9), LISP_INT32(2)>>

\* the integers the last evaluation displayed, in order
Displayed ==
  LET IsDisplay(o) == o[1] = "display"
      shown == SelectSeq(out, IsDisplay)
  IN  [k \in 1..Len(shown) |-> shown[k][2][2]]

\* the symbol is bound at top level
Bound(name) == ~LISP_IS_EXCEPTION(lisp_context_get_var(Runtime(LISP_NIL), TopLevel, name).v)

C27_Sequence ==
  /\ last.form \in {7, 8, 9, 10} =>
       /\ last.op = "eval"
       /\ IF Bound(Y)
            THEN /\ Displayed = <<1, 2>>
                 /\ last.val = LISP_NIL
                 /\ exception_list = last.before
          ELSE /\ Displayed = <<1>>
               /\ LISP_IS_EXCEPTION(last.val)
               /\ exception_list = <<String("no such variable: Y")>> \o last.before
  /\ last.form = 11 => last.val = LISP_NIL /\ Displayed = <<>>
  /\ last.form = 12 => last.val = LISP_INT32(7) /\ Displayed = <<1>>

\* the body of a cond clause stopped at the unbound y
C27_Witness ==
  /\ last.op = "eval"
  /\ last.form = 10
  /\ LISP_IS_EXCEPTION(last.val)
  /\ Displayed = <<1>>
  /\ ~Bound(Y)

\* the names the reader gives to the special forms and to the native
\* procedures of the minimum set
SpecialForms ==
  {"QUOTE", "IF", "COND", "DEFINE", "SET!", "LAMBDA", "NAMED-LAMBDA", "LET", "LET*",
   "LETREC", "BEGIN"}

MinimumNatives ==
  {"+", "-", "<", "=", "CAR", "CDR", "CONS", "LIST", "NULL?", "PAIR?", "ATOM?", "ZERO?",
   "DISPLAY", "EVAL", "APPLY", "MAKE-VECTOR", "VECTOR", "VECTOR-COPY", "VECTOR-LENGTH",
   "VECTOR-CAPACITY", "VECTOR-REF", "VECTOR-SET!", "GC"}

\* C22: before the first form is evaluated, the lookup of every special
\* form from the top-level context gives a syntax value and the lookup of
\* every native procedure of the minimum set gives a procedure
C22_TopLevel ==
  steps = 0 =>
    /\ \A name \in SpecialForms :
         lisp_is_class(lisp_context_get_var(Runtime(LISP_NIL), TopLevel, Symbol(name)).v,
                       LISP_CLASS_SYNTAX)
    /\ \A name \in MinimumNatives :
         lisp_is_class(lisp_context_get_var(Runtime(LISP_NIL), TopLevel, Symbol(name)).v,
                       LISP_CLASS_FUNCTION)

\* the tokens of each text of TokenTexts, written by hand
TokensOf ==
  { <<<<40, 97, 32, 49, 50, 41>>,
      <<<<40>>, <<97>>, <<49, 50>>, <<41>>>>>>,
    <<<<97, 32, 98>>,
      <<<<97>>, <<98>>>>>>,
    <<<<32, 39, 120, 32, 59, 32, 99, 10, 40, 49, 32, 46, 32, 50, 41>>,
      <<<<39>>, <<120>>, <<40>>, <<49>>, <<46>>, <<50>>, <<41>>>>>>,
    <<<<34, 97, 32, 98, 34, 32, 35, 116>>,
      <<<<34, 97, 32, 98, 34>>, <<35, 116>>>>>>,
    <<<<91, 43, 32, 45, 53, 93>>,
      <<<<91>>, <<43>>, <<45, 53>>, <<93>>>>>>,
    <<<<>>,
      <<>>>> }

\* C28: the tokens that the calls of lisp_next_token returned are the first
\* tokens of the text, in order, none left out and none twice, and NULL is
\* returned only after the last; a peek returns the token that follows
\* them; a peek after a peek changes nothing in the reader; a next after a
\* peek returns the token peeked and reads no character
C28_Lookahead ==
  LET tokens == (CHOOSE p \in TokensOf : p[1] = reader.filep.data)[2]
  IN  /\ Len(log) <= Len(tokens)
      /\ log = SubSeq(tokens, 1, Len(log))
      /\ last.op = "peek" =>
           /\ last.val = IF Len(log) < Len(tokens) THEN tokens[Len(log) + 1] ELSE NULL
           /\ last.prev = "peek" => reader = last.before
      /\ last.op = "next" =>
           /\ last.val = NULL => Len(log) = Len(tokens)
           /\ last.prev = "peek" =>
                /\ last.val = last.before.token
                /\ reader.filep = last.before.filep

\* three tokens were returned, the last one after it was peeked
C28_Witness ==
  /\ last.op = "next"
  /\ last.prev = "peek"
  /\ last.before.state = "LISP_RS_PEEK"
  /\ Len(log) = 3
  /\ log[3] = last.val
  /\ steps = 5

\* C23: the first form read from the text that lisp_value_format wrote for
\* a value is that value: the same integer, boolean or Nil, the same
\* interned symbol, a string of the same bytes, a pair of the same parts
C23_RoundTrip ==
  (last.op \in {"read", "crash"} /\ steps = 1) =>
    \A v \in Values :
      reader.filep.data = lisp_value_format(InternedSymbols, v) => last.val = v

\* C24: the first form read from a numeral, an optional sign followed by
\* decimal digits, is the integer that the numeral denotes in base 10
C24_Decimal ==
  LET RECURSIVE base10(_, _, _)
      base10(digits, i, n) ==
        IF i > Len(digits) THEN n ELSE base10(digits, i + 1, n * 10 + (digits[i] - 48))
      value(text) ==
        IF text[1] = 45 THEN 0 - base10(text, 2, 0)
        ELSE IF text[1] = 43 THEN base10(text, 2, 0)
        ELSE base10(text, 1, 0)
  IN  (last.op \in {"read", "crash"} /\ steps = 1 /\ reader.filep.data \in Numerals) =>
        last.val = LISP_INT32(value(reader.filep.data))

\* the scripts with the number of their forms and the place of the first
\* form whose reading or evaluation raises, 0 when none does, written by hand
ScriptForms ==
  {
    <<<<49>>, 1, 0>>,
    <<<<49, 10>>, 1, 0>>,
    <<<<40, 100, 105, 115, 112, 108, 97, 121, 32, 49, 41>>, 1, 0>>,
    <<<<40, 100, 105, 115, 112, 108, 97, 121, 32, 49, 41, 32, 120, 32, 40, 100, 105,
      115, 112, 108, 97, 121, 32, 50, 41>>, 3, 2>>,
    <<<<>>, 0, 0>>,
    <<<<40>>, 1, 1>>,
    <<<<40, 108, 97, 109, 98, 100, 97, 41>>, 1, 1>>,
    <<<<40, 100, 101, 102, 105, 110, 101, 32, 120, 32, 49, 41, 32, 120>>, 2, 0>>,
    <<<<40, 115, 101, 116, 33, 32, 120, 32, 121, 41>>, 1, 1>>,
    <<<<41>>, 1, 1>>,
    <<<<120, 32, 40, 100, 105, 115, 112, 108, 97, 121, 32, 49, 41>>, 2, 1>>,
    <<<<34, 97, 34>>, 1, 0>>,
    <<<<40, 100, 105, 115, 112, 108, 97, 121, 32, 49, 41, 32, 40, 100, 105, 115, 112,
      108, 97, 121, 32, 50, 41, 32, 51>>, 3, 0>>,
    <<<<49, 32, 50, 32, 48, 56, 32, 52>>, 4, 3>>,
    <<<<40, 100, 101, 102, 105, 110, 101, 32, 120, 32, 49, 41, 10, 40, 100, 105, 115,
      112, 108, 97, 121, 32, 120, 41, 10>>, 2, 0>>,
    <<<<40, 100, 105, 115, 112, 108, 97, 121, 32, 49, 41, 10, 40, 100, 105, 115, 112,
      108, 97, 121, 32, 50, 41, 10>>, 2, 0>>,
    <<<<49, 32, 40, 50>>, 2, 2>>,
    <<<<40, 100, 101, 102, 105, 110, 101, 32, 120, 32, 50, 41, 32, 40, 115, 101, 116,
      33, 32, 120, 32, 51, 41, 32, 120>>, 3, 0>>,
    <<<<40, 100, 101, 102, 105, 110, 101, 32, 102, 32, 40, 108, 97, 109, 98, 100, 97,
      32, 40, 41, 32, 120, 41, 41, 32, 40, 102, 41, 32, 51>>, 3, 2>> }

\* C26: interpreter returns 0 exactly when no form of the script raises,
\* after it evaluated them all; it reaches the label fail only on the first
\* form that raises, with every form before it evaluated and none after it
\* read, and then does not return 0
C26_Status ==
  LET script == CHOOSE p \in ScriptForms : p[1] = reader.filep.data
  IN  /\ last.op = "fail" =>
           /\ script[3] # 0
           /\ steps = script[3]
           /\ last.form = script[3] - 1
      /\ last.op = "exit" =>
           /\ last.status = 0 <=> script[3] = 0
           /\ last.status = 0 => last.form = script[2]
      /\ (last.op = "loop" /\ script[3] = 0 /\ last.form = script[2]) =>
           reader.filep.eof

\* C30: neither driver reaches lisp_runtime_free with a payload left in the
\* exception list
C30_Shutdown ==
  last.op # "assert"

\* C29: after every turn on the objects of the reference-counted variant,
\* the ref_count of each object that is not freed is the number of
\* references to it, from the fields of the objects that are not freed, the
\* exception list and the variables; no reference is left to a freed
\* object; and no object was freed while referred to, freed twice or used
\* after it was freed
C29_RefCount ==
  /\ last.op = "eval" => ~last.ub /\ ~last.dangling
  /\ \A i \in 1..Len(object_list) :
       LET val == <<object_list[i].class, i>>
           refs == obj_Fields(object_list, val)
                     + (IF exception_list = val THEN 1 ELSE 0)
                     + Len(SelectSeq(obj_var_list, LAMBDA var : var.value = val))
       IN  IF object_list[i].freed THEN refs = 0 ELSE object_list[i].ref_count = refs

====
